---- MODULE Spec2Model ----
(***************************************************************************)
(* Position search, result cache and request semaphore of the chess game   *)
(* database (src-tauri/src/db/search.rs, db/position_cache.rs, db/mod.rs,  *)
(* lib.rs).                                                                *)
(*                                                                         *)
(* The chess library (shakmaty) is an external collaborator.  It is        *)
(* modelled by a small sub-game played with real chess geometry: each side *)
(* has a king in the corner (h1, h8) that never moves, an a-pawn that may  *)
(* step once from its home rank (a2-a3, a7-a6) and a knight that walks the *)
(* path b1-c3-d5-f6-g8 and captures the enemy knight when it lands on it.  *)
(* Boards are records of bitboards (sets of squares 0..63, a1 = 0).        *)
(***************************************************************************)
EXTENDS Integers, Sequences, FiniteSets, TLC

(***************************************************************************)
(* Bounds of the model                                                     *)
(***************************************************************************)
MaxChunks == 3
MaxStarts == 2
MaxSemStarts == 2
MaxScanStarts == 1
MaxInDb == 8
MaxDeletes == 1
MaxGames == 5
MaxImports == 2
MaxMergeGames == 3
MaxMerges == 1
MaxLineCalls == 2
MaxQueryStarts == 3
MaxStaleStarts == 2
MaxPermitCalls == 7

(* F applied to the value of v, v being evaluated once.                     *)
Once(v, F(_)) == CHOOSE r \in {F(x) : x \in {v}} : TRUE

(***************************************************************************)
(* Chess library collaborator                                              *)
(***************************************************************************)
EmptyBoard ==
    [kings |-> {}, queens |-> {}, rooks |-> {}, bishops |-> {},
     knights |-> {}, pawns |-> {}, white |-> {}, black |-> {}]

StartBoard ==
    [kings |-> {7, 63}, queens |-> {}, rooks |-> {}, bishops |-> {},
     knights |-> {1, 62}, pawns |-> {8, 48},
     white |-> {1, 7, 8}, black |-> {48, 62, 63}]

ChessDefault == [board |-> StartBoard, turn |-> "w", ep |-> "-"]

KnightTargets(s) ==
    CASE s = 1 -> {18}
      [] s = 18 -> {1, 35}
      [] s = 35 -> {18, 45}
      [] s = 45 -> {35, 62}
      [] s = 62 -> {45}
      [] OTHER -> {}

RECURSIVE SortedSeq(_)
SortedSeq(S) ==
    IF S = {} THEN << >>
    ELSE LET m == CHOOSE x \in S : \A y \in S : x <= y
         IN <<m>> \o SortedSeq(S \ {m})

LegalMoves(pos) ==
    LET b == pos.board
        own == IF pos.turn = "w" THEN b.white ELSE b.black
        enemy == IF pos.turn = "w" THEN b.black ELSE b.white
        home == IF pos.turn = "w" THEN 8 ELSE 48
        step == IF pos.turn = "w" THEN 16 ELSE 40
        pawnMoves ==
            IF home \in (b.pawns \cap own) /\ step \notin (b.white \cup b.black)
            THEN << [role |-> "P", from |-> home, to |-> step, capture |-> FALSE] >>
            ELSE << >>
        kn == b.knights \cap own
        from == IF kn = {} THEN 0 ELSE CHOOSE s \in kn : TRUE
        targets == IF kn = {} THEN {} ELSE KnightTargets(from) \ own
        ts == SortedSeq(targets)
        knightMoves ==
            [i \in 1..Len(ts) |->
                [role |-> "N", from |-> from, to |-> ts[i],
                 capture |-> ts[i] \in enemy]]
    IN pawnMoves \o knightMoves

Play(pos, m) ==
    LET b == pos.board
        white1 == IF pos.turn = "w" THEN (b.white \ {m.from}) \cup {m.to}
                  ELSE b.white \ {m.to}
        black1 == IF pos.turn = "b" THEN (b.black \ {m.from}) \cup {m.to}
                  ELSE b.black \ {m.to}
        pawns1 == IF m.role = "P" THEN (b.pawns \ {m.from}) \cup {m.to}
                  ELSE b.pawns \ {m.to}
        knights1 == IF m.role = "N" THEN (b.knights \ {m.from}) \cup {m.to}
                    ELSE b.knights \ {m.to}
    IN [board |-> [b EXCEPT !.white = white1, !.black = black1,
                            !.pawns = pawns1, !.knights = knights1],
        turn |-> IF pos.turn = "w" THEN "b" ELSE "w",
        ep |-> "-"]

SquareName(s) ==
    CASE s = 1 -> "b1" [] s = 16 -> "a3" [] s = 18 -> "c3" [] s = 35 -> "d5"
      [] s = 40 -> "a6" [] s = 45 -> "f6" [] s = 62 -> "g8" [] OTHER -> "??"

San(m) ==
    IF m.role = "P" THEN SquareName(m.to)
    ELSE IF m.capture THEN "Nx" \o SquareName(m.to)
    ELSE "N" \o SquareName(m.to)

(* Fen::from_ascii followed by into_setup, on the FEN texts of the model.  *)
FEN_START == "6nk/p7/8/8/8/8/P7/1N5K w - - 0 1"
FEN_A3 == "6nk/p7/8/8/8/P7/8/1N5K b - - 0 1"
FEN_A3A6 == "6nk/8/p7/8/8/P7/8/1N5K w - - 0 2"
FEN_NC3 == "6nk/p7/8/8/8/2N5/P7/7K b - - 1 1"
FEN_ND5 == "6nk/p7/8/3N4/8/8/P7/7K b - - 3 2"
FEN_EMPTY == "8/8/8/8/8/8/8/8 w - - 0 1"
FEN_WPA2 == "8/8/8/8/8/8/P7/8 w - - 0 1"
FEN_NF6 == "6nk/p7/5N2/8/8/8/P7/7K w - - 6 4"
FEN_NXG8 == "6Nk/p7/8/8/8/8/P7/7K b - - 0 4"
FEN_NXG8A6 == "6Nk/8/p7/8/8/8/P7/7K w - - 0 5"
FEN_BAD == "not a fen"

CaptureFens == {FEN_NF6, FEN_NXG8, FEN_NXG8A6}

FenKnown ==
    {FEN_START, FEN_A3, FEN_A3A6, FEN_NC3, FEN_ND5, FEN_EMPTY, FEN_WPA2} \cup CaptureFens

FenIntoSetup(fen) ==
    CASE fen = FEN_START -> ChessDefault
      [] fen = FEN_A3 ->
            [board |-> [StartBoard EXCEPT !.pawns = {16, 48}, !.white = {1, 7, 16}],
             turn |-> "b", ep |-> "-"]
      [] fen = FEN_A3A6 ->
            [board |-> [StartBoard EXCEPT !.pawns = {16, 40}, !.white = {1, 7, 16},
                                          !.black = {40, 62, 63}],
             turn |-> "w", ep |-> "-"]
      [] fen = FEN_NC3 ->
            [board |-> [StartBoard EXCEPT !.knights = {18, 62}, !.white = {7, 8, 18}],
             turn |-> "b", ep |-> "-"]
      [] fen = FEN_ND5 ->
            [board |-> [StartBoard EXCEPT !.knights = {35, 62}, !.white = {7, 8, 35}],
             turn |-> "b", ep |-> "-"]
      [] fen = FEN_NF6 ->
            [board |-> [StartBoard EXCEPT !.knights = {45, 62}, !.white = {7, 8, 45}],
             turn |-> "w", ep |-> "-"]
      [] fen = FEN_NXG8 ->
            [board |-> [StartBoard EXCEPT !.knights = {62}, !.white = {7, 8, 62},
                                          !.black = {48, 63}],
             turn |-> "b", ep |-> "-"]
      [] fen = FEN_NXG8A6 ->
            [board |-> [StartBoard EXCEPT !.knights = {62}, !.pawns = {8, 40},
                                          !.white = {7, 8, 62}, !.black = {40, 63}],
             turn |-> "w", ep |-> "-"]
      [] fen = FEN_EMPTY -> [board |-> EmptyBoard, turn |-> "w", ep |-> "-"]
      [] fen = FEN_WPA2 ->
            [board |-> [EmptyBoard EXCEPT !.pawns = {8}, !.white = {8}],
             turn |-> "w", ep |-> "-"]
      [] OTHER -> ChessDefault

(* Chess::from_setup accepts a setup with one king of each colour.         *)
SetupIsPosition(setup) ==
    /\ Cardinality(setup.board.kings \cap setup.board.white) = 1
    /\ Cardinality(setup.board.kings \cap setup.board.black) = 1

(***************************************************************************)
(* db/mod.rs, db/pgn.rs: fingerprints of a board                           *)
(***************************************************************************)
RECURSIVE SumPow2(_)
SumPow2(S) ==
    IF S = {} THEN 0
    ELSE LET x == CHOOSE y \in S : TRUE IN 2 ^ x + SumPow2(S \ {x})

BitsOf(n) == {i \in 0..15 : (n \div (2 ^ i)) % 2 = 1}

get_pawn_home_m(board) ==
    LET second_rank_pawns == SumPow2({s - 8 : s \in {t \in board.pawns : t >= 8 /\ t <= 15}})
        seventh_rank_pawns == SumPow2({s - 48 : s \in {t \in board.pawns : t >= 48 /\ t <= 55}})
    IN second_rank_pawns + seventh_rank_pawns * 256

get_pawn_home_r(board) ==
    LET white_pawns == board.pawns \cap board.white
        black_pawns == board.pawns \cap board.black
        third_rank_pawns == SumPow2({s - 16 : s \in {t \in white_pawns : t >= 16 /\ t <= 23}})
        sixth_rank_pawns == SumPow2({s - 40 : s \in {t \in black_pawns : t >= 40 /\ t <= 47}})
    IN third_rank_pawns + sixth_rank_pawns * 256

get_pawn_home(board) ==
    LET white_pawns == board.pawns \cap board.white
        black_pawns == board.pawns \cap board.black
        second_rank_pawns == SumPow2({s - 8 : s \in {t \in white_pawns : t >= 8 /\ t <= 15}})
        seventh_rank_pawns == SumPow2({s - 48 : s \in {t \in black_pawns : t >= 48 /\ t <= 55}})
    IN second_rank_pawns + seventh_rank_pawns * 256

get_material_count(board) ==
    LET count(side) ==
            Cardinality(board.pawns \cap side)
            + 3 * Cardinality(board.knights \cap side)
            + 3 * Cardinality(board.bishops \cap side)
            + 5 * Cardinality(board.rooks \cap side)
            + 9 * Cardinality(board.queens \cap side)
    IN [white |-> count(board.white), black |-> count(board.black)]

(***************************************************************************)
(* db/search.rs: position queries                                          *)
(***************************************************************************)
PartialMasks_from_setup(setup) ==
    LET b == setup.board
        bit(bb, v) == IF bb # {} THEN v ELSE 0
    IN [kings |-> b.kings, queens |-> b.queens, rooks |-> b.rooks,
        bishops |-> b.bishops, knights |-> b.knights, pawns |-> b.pawns,
        white |-> b.white, black |-> b.black,
        non_empty |-> bit(b.kings, 1) + bit(b.queens, 2) + bit(b.rooks, 4)
                      + bit(b.bishops, 8) + bit(b.knights, 16) + bit(b.pawns, 32)
                      + bit(b.white, 64) + bit(b.black, 128)]

FenError == [kind |-> "FenError"]

exact_from_fen(fen) ==
    IF fen \notin FenKnown \/ ~SetupIsPosition(FenIntoSetup(fen)) THEN FenError
    ELSE LET position == FenIntoSetup(fen)
         IN [kind |-> "Exact",
             pawn_home |-> get_pawn_home(position.board),
             material |-> get_material_count(position.board),
             position |-> position]

partial_from_fen(fen) ==
    IF fen \notin FenKnown THEN FenError
    ELSE LET setup == FenIntoSetup(fen)
         IN [kind |-> "Partial",
             piece_positions |-> setup,
             material |-> get_material_count(setup.board),
             masks |-> PartialMasks_from_setup(setup)]

convert_position_query(query) ==
    CASE query.type_ = "exact" -> exact_from_fen(query.fen)
      [] query.type_ = "partial" -> partial_from_fen(query.fen)
      [] OTHER -> FenError

is_end_reachable(end, pos) == BitsOf(end) \ BitsOf(pos) = {}

is_material_reachable(end, pos) == end.white <= pos.white /\ end.black <= pos.black

is_contained(container, subset) == container \cap subset = subset

matches_m(q, position) ==
    IF q.kind = "Exact"
    THEN /\ q.position.turn = position.turn
         /\ q.position.board = position.board
         /\ q.position.ep = position.ep
    ELSE LET m == q.masks
             tested == position.board
             has(v) == (m.non_empty \div v) % 2 = 1
         IN \/ m.non_empty = 0
            \/ /\ has(1) => is_contained(tested.kings, m.kings)
               /\ has(2) => is_contained(tested.queens, m.queens)
               /\ has(4) => is_contained(tested.rooks, m.rooks)
               /\ has(8) => is_contained(tested.bishops, m.bishops)
               /\ has(16) => is_contained(tested.knights, m.knights)
               /\ has(32) => is_contained(tested.pawns, m.pawns)

matches(q, position) ==
    IF q.kind = "Exact"
    THEN /\ q.position.turn = position.turn
         /\ q.position.board = position.board
         /\ q.position.ep = position.ep
    ELSE LET m == q.masks
             tested == position.board
             has(v) == (m.non_empty \div v) % 2 = 1
         IN \/ m.non_empty = 0
            \/ /\ has(1) => is_contained(tested.kings, m.kings)
               /\ has(2) => is_contained(tested.queens, m.queens)
               /\ has(4) => is_contained(tested.rooks, m.rooks)
               /\ has(8) => is_contained(tested.bishops, m.bishops)
               /\ has(16) => is_contained(tested.knights, m.knights)
               /\ has(32) => is_contained(tested.pawns, m.pawns)
               /\ has(64) => is_contained(tested.white, m.white)
               /\ has(128) => is_contained(tested.black, m.black)

is_reachable_by_m(q, material, pawn_home) ==
    IF q.kind = "Exact"
    THEN is_end_reachable(pawn_home, q.pawn_home)
         /\ is_material_reachable(material, q.material)
    ELSE is_material_reachable(q.material, material)

is_reachable_by(q, material, pawn_home) ==
    IF q.kind = "Exact"
    THEN is_end_reachable(q.pawn_home, pawn_home)
         /\ is_material_reachable(q.material, material)
    ELSE is_material_reachable(q.material, material)

can_reach_m(q, material, pawn_home) ==
    IF q.kind = "Exact"
    THEN is_end_reachable(q.pawn_home, pawn_home)
         /\ is_material_reachable(q.material, material)
    ELSE TRUE

can_reach(q, material, pawn_home) ==
    IF q.kind = "Exact"
    THEN is_end_reachable(pawn_home, q.pawn_home)
         /\ is_material_reachable(material, q.material)
    ELSE TRUE

(***************************************************************************)
(* db/encoding.rs, db/search.rs: the move blob                             *)
(***************************************************************************)
START_VARIATION == 254
END_VARIATION == 253
COMMENT == 252
NAG == 251

NoneMove == [role |-> "none", from |-> 0, to |-> 0, capture |-> FALSE]

(* The byte is the index of the move in the legal-move list.               *)
decode_move(byte, chess) ==
    LET legal_moves == LegalMoves(chess)
    IN IF byte < Len(legal_moves) THEN legal_moves[byte + 1] ELSE NoneMove

NoFen == "none"

RowStart(fen) ==
    IF fen = NoFen THEN [ok |-> TRUE, chess |-> ChessDefault]
    ELSE IF fen \notin FenKnown \/ ~SetupIsPosition(FenIntoSetup(fen))
    THEN [ok |-> FALSE, chess |-> ChessDefault]
    ELSE [ok |-> TRUE, chess |-> FenIntoSetup(fen)]

OkNone == [tag |-> "None", mv |-> ""]
OkSome(m) == [tag |-> "Some", mv |-> m]
ErrResult == [tag |-> "Err", mv |-> ""]

(* WalkFrom reporting the matching move itself instead of the next one.    *)
RECURSIVE WalkFrom_m(_, _, _, _)
WalkFrom_m(move_blob, i, chess, query) ==
    IF i > Len(move_blob) THEN OkNone
    ELSE LET m == decode_move(move_blob[i], chess)
         IN IF m = NoneMove THEN OkNone
            ELSE Once(Play(chess, m), LAMBDA played :
                 IF ~is_reachable_by(query, get_material_count(played.board),
                                      get_pawn_home(played.board))
                 THEN OkNone
                 ELSE IF matches(query, played)
                 THEN IF i = Len(move_blob) THEN OkSome("*")
                      ELSE OkSome(San(m))
                 ELSE WalkFrom_m(move_blob, i + 1, played, query))

(* The loop of get_move_after_match; i is the 1-based index of the byte.   *)
RECURSIVE WalkFrom(_, _, _, _)
WalkFrom(move_blob, i, chess, query) ==
    IF i > Len(move_blob) THEN OkNone
    ELSE LET m == decode_move(move_blob[i], chess)
         IN IF m = NoneMove THEN OkNone
            ELSE Once(Play(chess, m), LAMBDA played :
                 IF ~is_reachable_by(query, get_material_count(played.board),
                                      get_pawn_home(played.board))
                 THEN OkNone
                 ELSE IF matches(query, played)
                 THEN IF i = Len(move_blob) THEN OkSome("*")
                      ELSE LET next_move == decode_move(move_blob[i + 1], played)
                           IN IF next_move # NoneMove THEN OkSome(San(next_move))
                              ELSE OkNone
                 ELSE WalkFrom(move_blob, i + 1, played, query))

(* get_move_after_match taking a row whose FEN does not parse for a match. *)
get_move_after_match_m(move_blob, fen, query) ==
    IF ~RowStart(fen).ok THEN OkSome("*")
    ELSE IF matches(query, RowStart(fen).chess)
    THEN IF move_blob = << >> THEN OkSome("*")
         ELSE LET next_move == decode_move(move_blob[1], RowStart(fen).chess)
              IN IF next_move # NoneMove THEN OkSome(San(next_move)) ELSE OkNone
    ELSE WalkFrom(move_blob, 1, RowStart(fen).chess, query)

get_move_after_match(move_blob, fen, query) ==
    LET start == RowStart(fen)
        chess == start.chess
    IN IF ~start.ok THEN ErrResult
       ELSE IF matches(query, chess)
       THEN IF move_blob = << >> THEN OkSome("*")
            ELSE LET next_move == decode_move(move_blob[1], chess)
                 IN IF next_move # NoneMove THEN OkSome(San(next_move)) ELSE OkNone
       ELSE WalkFrom(move_blob, 1, chess, query)

Min(a, b) == IF a <= b THEN a ELSE b
Max(a, b) == IF a >= b THEN a ELSE b

(* MoveStream: the decoder of the blob grammar (index is 0-based).         *)
RECURSIVE SkipVariation(_, _, _)
SkipVariation(bytes, index, depth) ==
    IF index < Len(bytes) /\ depth > 0
    THEN LET b == bytes[index + 1]
             d == IF b = START_VARIATION THEN depth + 1
                  ELSE IF b = END_VARIATION THEN depth - 1 ELSE depth
         IN SkipVariation(bytes, index + 1, d)
    ELSE index

(* u64::from_be_bytes of the 8 bytes after the marker.  The sum saturates   *)
(* just past the end of the blob: every length that large leaves the index *)
(* beyond the last byte.                                                   *)
RECURSIVE BeLengthFrom(_, _, _, _)
BeLengthFrom(bytes, index, j, acc) ==
    IF j > 8 THEN acc
    ELSE BeLengthFrom(bytes, index, j + 1,
                      Min(acc * 256 + bytes[index + 1 + j], Len(bytes) + 1))

BeLength(bytes, index) == BeLengthFrom(bytes, index, 1, 0)

RECURSIVE next_move(_)
next_move(stream) ==
    LET bytes == stream.bytes
        len == Len(bytes)
        index == stream.index
        none == [some |-> FALSE, stream |-> stream, san |-> ""]
    IN IF index >= len THEN none
       ELSE LET byte == bytes[index + 1]
            IN CASE byte = COMMENT ->
                      IF index + 8 >= len THEN none
                      ELSE next_move([stream EXCEPT
                                        !.index = index + 9 + BeLength(bytes, index)])
                 [] byte = NAG -> next_move([stream EXCEPT !.index = index + 2])
                 [] byte = START_VARIATION ->
                      next_move([stream EXCEPT
                                   !.index = SkipVariation(bytes, index + 1, 1)])
                 [] byte = END_VARIATION -> none
                 [] OTHER ->
                      LET legal_moves == LegalMoves(stream.position)
                      IN IF byte < Len(legal_moves)
                         THEN LET chess_move == legal_moves[byte + 1]
                              IN [some |-> TRUE,
                                  stream |-> [stream EXCEPT
                                                !.position = Play(stream.position, chess_move),
                                                !.index = index + 1],
                                  san |-> San(chess_move)]
                         ELSE none

(* The main line of a blob: what repeated next_move calls emit.            *)
RECURSIVE MainLineFrom(_)
MainLineFrom(stream) ==
    Once(next_move(stream), LAMBDA r :
        IF ~r.some THEN << >>
        ELSE << [position |-> r.stream.position, san |-> r.san] >>
             \o MainLineFrom(r.stream))

MainLine(bytes, start_position) ==
    MainLineFrom([bytes |-> bytes, position |-> start_position, index |-> 0])

(***************************************************************************)
(* Program constants.  PERMITS (lib.rs 83) and IN_DB_LIMIT (search.rs      *)
(* 1867) are the source's values.  The others stand for values that no     *)
(* database of the model reaches and are scaled down, the code around them *)
(* unchanged: MAX_SAMPLE_GAMES for 1000 (search.rs 828), CACHE_MAX_GAMES   *)
(* for 1000 (position_cache.rs 286), DETAILS_MAX for 1000 and              *)
(* DETAILS_DEFAULT for 10 (search.rs 1569-1570), PROGRESS_MIN_STEP for     *)
(* 50,000 (search.rs 1084), PARALLEL_LIMIT for 1,000,000 (search.rs 1288). *)
(***************************************************************************)
PERMITS == 10
MAX_SAMPLE_GAMES == 3
CACHE_MAX_GAMES == 2
DETAILS_MAX == 2
DETAILS_DEFAULT == 1
PROGRESS_MIN_STEP == 2
PARALLEL_LIMIT == 4
BATCH_SIZE == 2
IN_DB_LIMIT == 1000

(***************************************************************************)
(* Database files and their game rows                                      *)
(***************************************************************************)
FILE_A == "db/a.db3"
FILE_B == "db/b.db3"
FILE_C == "db/c.db3"
FILE_O == "db/alice_lichess.db3"
FILE_P == "db/bob_CHESSCOM.db3"

is_online_database(file) == file \in {FILE_O, FILE_P}

(* canonicalize() when the file exists, else the path text itself.         *)
normalize_db_path(path, exists) == IF exists THEN "/app/" \o path ELSE path

NoInt == -1
NoStr == "none"


RECURSIVE MinMaterial(_, _)
MinMaterial(line, acc) ==
    IF line = << >> THEN acc
    ELSE LET mc == get_material_count(line[1].position.board)
         IN MinMaterial(Tail(line),
                        [white |-> Min(acc.white, mc.white),
                         black |-> Min(acc.black, mc.black)])

(* insert_to_db: the row the importer stores for a game.                   *)
ImportedRow(id, result, moves, fen, white_elo, black_elo) ==
    Once(MainLine(moves, RowStart(fen).chess), LAMBDA line :
    Once(MinMaterial(line, get_material_count(RowStart(fen).chess.board)), LAMBDA minimal :
        LET final == IF line = << >> THEN RowStart(fen).chess
                     ELSE line[Len(line)].position
        IN [id |-> id, white_id |-> 1, black_id |-> 2, date |-> 20240101,
            result |-> result, moves |-> moves, fen |-> fen,
            pawn_home |-> get_pawn_home(final.board),
            white_material |-> minimal.white, black_material |-> minimal.black,
            white_elo |-> white_elo, black_elo |-> black_elo]))

(* A row of a downloaded database: the fingerprint columns are not filled. *)
OnlineRow(id, result, moves, fen) ==
    [ImportedRow(id, result, moves, fen, NoInt, NoInt) EXCEPT
        !.pawn_home = 0, !.white_material = 0, !.black_material = 0]

GamesA ==
    << ImportedRow(1, "1-0", <<0, 0>>, NoFen, 2000, 2100),
       ImportedRow(2, "0-1", <<1>>, NoFen, 1500, NoInt) >>

(* Two games and two games without moves, one from each start.             *)
GamesE ==
    << ImportedRow(1, "1-0", <<0, 0>>, NoFen, 2000, 2100),
       ImportedRow(2, "0-1", <<1>>, NoFen, 1500, NoInt),
       ImportedRow(3, "1/2-1/2", << >>, NoFen, NoInt, NoInt),
       ImportedRow(4, "1/2-1/2", << >>, FEN_A3, NoInt, NoInt) >>

GamesB == << ImportedRow(7, "1/2-1/2", <<1, 0>>, NoFen, 1800, 1800) >>

GamesA3 ==
    << ImportedRow(1, "1-0", <<0, 0>>, NoFen, 2000, 2100),
       ImportedRow(2, "1-0", <<0, 1>>, NoFen, 2400, 2301),
       ImportedRow(3, "*", <<1, 0>>, NoFen, 1500, NoInt) >>

GamesA4 == GamesA3 \o << ImportedRow(4, "0-1", <<1>>, NoFen, 1400, 1450) >>

(* Three games: the second opens with a comment before its first move,     *)
(* the blob of the third holds a byte that is no legal-move index after    *)
(* its first move.                                                         *)
GamesC ==
    << ImportedRow(1, "1-0", <<0>>, NoFen, 1900, 1900),
       ImportedRow(2, "0-1", <<252, 0, 0, 0, 0, 0, 0, 0, 1, 65, 1>>, NoFen,
                   1700, NoInt),
       ImportedRow(3, "1-0", <<0, 7>>, NoFen, 1600, 1650) >>

GamesO ==
    << OnlineRow(1, "1-0", <<0, 0>>, NoFen),
       OnlineRow(2, "1/2-1/2", <<0, 1>>, NoFen),
       OnlineRow(3, "0-1", <<1, 0>>, NoFen) >>

GamesP ==
    << OnlineRow(1, "1-0", <<0, 0>>, NoFen),
       OnlineRow(2, "0-1", <<0>>, FEN_A3A6),
       OnlineRow(3, "1-0", <<0>>, FEN_START),
       OnlineRow(4, "0-1", <<1>>, FEN_BAD) >>

(***************************************************************************)
(* db/search.rs: aggregation of one scan                                   *)
(***************************************************************************)
avg_elo(white, black) ==
    IF white # NoInt /\ black # NoInt THEN (white + black + 1) \div 2
    ELSE IF white # NoInt THEN white
    ELSE IF black # NoInt THEN black
    ELSE 0

MinIndex(vec) ==
    CHOOSE i \in 1..Len(vec) :
        /\ \A j \in 1..Len(vec) : vec[i].avg <= vec[j].avg
        /\ \A j \in 1..(i - 1) : vec[j].avg > vec[i].avg

push_top_k(vec, k, item) ==
    IF Len(vec) < k THEN Append(vec, item)
    ELSE LET min_idx == MinIndex(vec)
         IN IF item.avg > vec[min_idx].avg
            THEN [vec EXCEPT ![min_idx] = item]
            ELSE vec

(* PushFirstK without the cap.                                             *)
PushFirstK_m(vec, k, item) == Append(vec, item)

PushFirstK(vec, k, item) ==
    IF Len(vec) < k THEN Append(vec, item) ELSE vec

(* UpdateOpenings inserting a fresh record over an occupied entry.         *)
UpdateOpenings_m(openings, m, result) ==
    {e \in openings : e.move # m}
    \cup {[move |-> m, white |-> IF result = "1-0" THEN 1 ELSE 0,
           draw |-> IF result = "1/2-1/2" THEN 1 ELSE 0,
           black |-> IF result = "0-1" THEN 1 ELSE 0]}

(* The entry() update of the openings map, atomic under the entry's lock.  *)
UpdateOpenings(openings, m, result) ==
    LET w == IF result = "1-0" THEN 1 ELSE 0
        b == IF result = "0-1" THEN 1 ELSE 0
        d == IF result = "1/2-1/2" THEN 1 ELSE 0
    IN IF \E e \in openings : e.move = m
       THEN LET e == CHOOSE x \in openings : x.move = m
            IN (openings \ {e})
               \cup {[move |-> m, white |-> e.white + w,
                      draw |-> e.draw + d, black |-> e.black + b]}
       ELSE openings \cup {[move |-> m, white |-> w, draw |-> d, black |-> b]}

(* sort_by(|a, b| b.0.cmp(&a.0)): stable, descending by average.           *)
RECURSIVE SortByAvgDesc(_)
SortByAvgDesc(vec) ==
    IF vec = << >> THEN << >>
    ELSE LET i == CHOOSE j \in 1..Len(vec) :
                    /\ \A l \in 1..Len(vec) : vec[j].avg >= vec[l].avg
                    /\ \A l \in 1..(j - 1) : vec[l].avg < vec[j].avg
         IN <<vec[i]>> \o SortByAvgDesc(SubSeq(vec, 1, i - 1)
                                         \o SubSeq(vec, i + 1, Len(vec)))

Ids(vec) == [i \in 1..Len(vec) |-> vec[i].id]

Take(seq, n) == SubSeq(seq, 1, Min(n, Len(seq)))

WantedResult(r) ==
    CASE r = "whitewon" -> "1-0"
      [] r = "blackwon" -> "0-1"
      [] r = "draw" -> "1/2-1/2"
      [] OTHER -> NoStr

(* The user-filter predicates a row worker applies before the walk.        *)
PassesFilters(query, row) ==
    /\ query.player1 # NoInt => query.player1 = row.white_id
    /\ query.player2 # NoInt => query.player2 = row.black_id
    /\ WantedResult(query.wanted_result) # NoStr
          => row.result = WantedResult(query.wanted_result)
    /\ (query.start_date # NoInt /\ row.date # NoInt) => row.date >= query.start_date
    /\ (query.end_date # NoInt /\ row.date # NoInt) => row.date <= query.end_date

(* The reachability gate of a row, by scan path.                           *)
RowCanReach(path, position_query, row) ==
    CASE path \in {"localB", "localAvg"} ->
            can_reach(position_query,
                      [white |-> row.white_material, black |-> row.black_material],
                      row.pawn_home)
      [] path = "onlineSeq" ->
            LET start == RowStart(row.fen).chess
            IN can_reach(position_query, get_material_count(start.board),
                         get_pawn_home(start.board))
      [] OTHER -> TRUE

(* game_details_limit ignoring the caller's value.                          *)
game_details_limit_m(query) == DETAILS_MAX

game_details_limit(query) ==
    Min(IF query.game_details_limit = NoInt THEN DETAILS_DEFAULT
        ELSE query.game_details_limit, DETAILS_MAX)

(***************************************************************************)
(* State                                                                   *)
(***************************************************************************)
VARIABLES
    games,        \* file -> rows of its games table
    hasTables,    \* files whose database holds the schema
    pool,         \* AppState.connection_pool: files with an open pool
    db_cache,     \* AppState.db_cache: the rows loaded by the local scan
    db_lock,      \* holder of the db_cache mutex (0 = free)
    available,    \* AppState.new_request: available permits
    line_cache,   \* AppState.line_cache: keys holding a negative answer
    cache,        \* position_cache.db3: entries [fen, path, stats, ids]
    saved,        \* history: every [fen, path, stats] ever stored
    calls,        \* the search_position calls, by slot
    started,      \* number of search_position calls started
    del,          \* the delete_database call
    indb,         \* is_position_in_db calls holding a permit, by argument
    walk,         \* a single run of get_move_after_match
    imp,          \* the convert_pgn call and the database it imports into
    mdb,          \* a database whose players are merged: games, Players, Info
    puz,          \* the PUZZLE_CACHE of get_puzzle and the puzzle databases
    brd,          \* one evaluation of the board fingerprints and query predicates
    answer,       \* the last return of is_position_in_db
    holders       \* further search_position calls that hold their permit

vars == <<games, hasTables, pool, db_cache, db_lock, available, line_cache,
          cache, saved, calls, started, del, indb, walk, imp, mdb, puz, brd, answer, holders>>

Calls == {1, 2}
Workers == {1, 2}

NoPosition == [fen |-> NoStr, type_ |-> NoStr]

GameQuery(position, sort, limit, wanted) ==
    [position |-> position, sort |-> sort, game_details_limit |-> limit,
     player1 |-> NoInt, player2 |-> NoInt, start_date |-> NoInt,
     end_date |-> NoInt, wanted_result |-> wanted]

IdleWorker == [pc |-> "idle", row |-> 0, m |-> ""]

IdleCall ==
    [pc |-> "idle", file |-> NoStr, query |-> GameQuery(NoPosition, "Id", NoInt, NoStr),
     nw |-> 1, fen |-> NoStr, position_query |-> FenError, path |-> NoStr,
     holds |-> FALSE, rows |-> << >>, games_len |-> 0, todo |-> {},
     processed |-> 0, next_tick |-> 0, step |-> 0,
     openings |-> {}, sample |-> << >>, sample_lock |-> 0,
     w |-> [i \in Workers |-> IdleWorker],
     ids |-> << >>, details |-> {}, events |-> << >>,
     result |-> [kind |-> NoStr, stats |-> {}, details |-> {}],
     scanned |-> FALSE, skipped |-> {}, wrote |-> FALSE,
     cachedAtStart |-> FALSE, disturbed |-> FALSE, overlapped |-> FALSE]

Terminal == [progress |-> 100, finished |-> TRUE]

(* The progress of the event a row worker emits: a percentage capped at 99. *)
progress_of_m(index, games_len) == ((index + 1) * 100) \div games_len

progress_of(index, games_len) == Min(((index + 1) * 100) \div games_len, 99)

Return(call, kind, stats, details) ==
    [call EXCEPT !.pc = "done", !.holds = FALSE,
                 !.result = [kind |-> kind, stats |-> stats, details |-> details]]

CacheKey(fen, file) == [fen |-> fen, path |-> normalize_db_path(file, TRUE)]

CacheEntries(key) == {e \in cache : e.fen = key.fen /\ e.path = key.path}

(***************************************************************************)
(* db/position_cache.rs                                                    *)
(***************************************************************************)
(* is_position_cached never finding the entry.                             *)
is_position_cached_m(fen, file) == FALSE

is_position_cached(fen, file) == CacheEntries(CacheKey(fen, file)) # {}

HasDuplicates(seq) == \E i, j \in 1..Len(seq) : i < j /\ seq[i] = seq[j]

(* save_position_cache inserting its entry without the lookup of an        *)
(* existing one.                                                           *)
save_position_cache_m(entries, fen, file, stats, game_ids) ==
    entries \cup {[fen |-> fen, path |-> normalize_db_path(file, TRUE),
                   stats |-> stats, ids |-> game_ids]}

(* One transaction: the entry of the key is replaced; a duplicate game id  *)
(* violates UNIQUE(position_id, game_id) and rolls the transaction back.   *)
save_position_cache(entries, fen, file, stats, game_ids) ==
    LET key == CacheKey(fen, file)
        games_to_save == Take(game_ids, CACHE_MAX_GAMES)
    IN IF HasDuplicates(games_to_save) THEN entries
       ELSE {e \in entries : ~(e.fen = key.fen /\ e.path = key.path)}
            \cup {[fen |-> key.fen, path |-> key.path, stats |-> stats,
                   ids |-> games_to_save]}

NoEntry == [some |-> FALSE, stats |-> {}, ids |-> << >>]

(* The stats and the ordered game ids stored for the key, if any.          *)
get_cached_position(entries, fen, file) ==
    LET key == CacheKey(fen, file)
        found == {e \in entries : e.fen = key.fen /\ e.path = key.path}
    IN IF found = {} THEN NoEntry
       ELSE LET entry == CHOOSE e \in found : TRUE
            IN [some |-> TRUE, stats |-> entry.stats, ids |-> entry.ids]

clear_cache_for_database(entries, file) ==
    {e \in entries : e.path # normalize_db_path(file, TRUE)}

(***************************************************************************)
(* db/search.rs: search_position                                           *)
(***************************************************************************)
(* get_db_or_create and the fen of the query.                              *)
SearchStart(c, file, query, nw, max) ==
    /\ calls[c].pc \in {"idle", "done"}
    /\ started < max
    /\ started' = started + 1
    /\ pool' = pool \cup {file}
    /\ calls' = [calls EXCEPT ![c] =
          IF query.position = NoPosition
          THEN Return([IdleCall EXCEPT !.file = file, !.query = query],
                      "NoMatchFound", {}, {})
          ELSE [IdleCall EXCEPT
                  !.pc = "check", !.file = file, !.query = query, !.nw = nw,
                  !.fen = query.position.fen,
                  !.cachedAtStart = CacheEntries(CacheKey(query.position.fen, file)) # {},
                  !.disturbed = file \notin hasTables]]
    /\ UNCHANGED <<games, hasTables, db_cache, db_lock, available, line_cache,
                   cache, saved, del, indb, walk, imp, mdb, puz, brd, answer, holders>>

(* is_position_cached; on a miss the query is converted.                   *)
IsPositionCached(c) ==
    LET call == calls[c]
        position_query == convert_position_query(call.query.position)
    IN /\ call.pc = "check"
       /\ calls' = [calls EXCEPT ![c] =
             IF is_position_cached(call.fen, call.file)
             THEN [call EXCEPT !.pc = "load"]
             ELSE IF position_query = FenError
             THEN Return(call, "FenError", {}, {})
             ELSE [call EXCEPT !.pc = "acquire", !.position_query = position_query]]
       /\ UNCHANGED <<games, hasTables, pool, db_cache, db_lock, available,
                      line_cache, cache, saved, started, del, indb, walk, imp, mdb, puz, brd, answer, holders>>

DetailsOf(file, ids_to_load) ==
    {ids_to_load[i] : i \in {j \in 1..Len(ids_to_load) :
        \E k \in 1..Len(games[file]) : games[file][k].id = ids_to_load[j]}}

(* get_cached_position and the reload of the detail window.                *)
GetCachedPosition(c) ==
    LET call == calls[c]
        found == CacheEntries(CacheKey(call.fen, call.file))
        position_query == convert_position_query(call.query.position)
    IN /\ call.pc = "load"
       /\ calls' = [calls EXCEPT ![c] =
             IF found # {}
             THEN LET entry == CHOOSE e \in found : TRUE
                      ids_to_load == Take(entry.ids, game_details_limit(call.query))
                  IN IF ids_to_load # << >> /\ call.file \notin hasTables
                     THEN Return(call, "Storage", {}, {})
                     ELSE Return([call EXCEPT !.events = Append(@, Terminal)],
                                 "Ok", entry.stats, DetailsOf(call.file, ids_to_load))
             ELSE IF position_query = FenError
             THEN Return(call, "FenError", {}, {})
             ELSE [call EXCEPT !.pc = "acquire", !.position_query = position_query]]
       /\ UNCHANGED <<games, hasTables, pool, db_cache, db_lock, available,
                      line_cache, cache, saved, started, del, indb, walk, imp, mdb, puz, brd, answer, holders>>

(* new_request.acquire() and the choice of the scan path.                  *)
AcquirePermit(c) ==
    LET call == calls[c]
        path == IF is_online_database(call.file) THEN "online"
                ELSE IF call.query.sort = "AverageElo" THEN "localAvg"
                ELSE "localB"
    IN /\ call.pc = "acquire"
       /\ available > 0
       /\ available' = available - 1
       /\ calls' = [d \in Calls |->
             IF d = c THEN [call EXCEPT !.pc = "rows", !.holds = TRUE, !.path = path]
             ELSE IF calls[d].pc \in {"rows", "scan"}
             THEN [calls[d] EXCEPT !.overlapped = TRUE]
             ELSE calls[d]]
       /\ UNCHANGED <<games, hasTables, pool, db_cache, db_lock, line_cache,
                      cache, saved, started, del, indb, walk, imp, mdb, puz, brd, answer, holders>>

StartScan(call, path, rows, expected) ==
    [call EXCEPT !.pc = "scan", !.path = path, !.rows = rows,
                 !.games_len = Len(rows), !.todo = 1..Len(rows),
                 !.step = Max(expected \div 20, PROGRESS_MIN_STEP),
                 !.next_tick = Max(expected \div 20, PROGRESS_MIN_STEP)]

(* The load of the rows to scan: the online vector, the AverageElo vector  *)
(* or the db_cache, which is read from the file only when it is empty.     *)
LoadRows(c) ==
    LET call == calls[c]
        file == call.file
    IN /\ call.pc = "rows"
       /\ CASE call.path = "online" ->
                 LET rows == IF file \in hasTables THEN games[file] ELSE << >>
                     path == IF Len(rows) < PARALLEL_LIMIT THEN "onlinePar"
                             ELSE "onlineSeq"
                 IN /\ calls' = [calls EXCEPT ![c] =
                          StartScan([call EXCEPT !.nw = IF path = "onlineSeq" THEN 1 ELSE @],
                                    path, rows, Max(Len(rows), 1))]
                    /\ UNCHANGED <<db_cache, db_lock, available>>
            [] call.path = "localAvg" ->
                 IF file \in hasTables
                 THEN /\ calls' = [calls EXCEPT ![c] =
                            StartScan(call, "localAvg", games[file], Len(games[file]))]
                      /\ UNCHANGED <<db_cache, db_lock, available>>
                 ELSE /\ calls' = [calls EXCEPT ![c] = Return(call, "Storage", {}, {})]
                      /\ available' = available + 1
                      /\ UNCHANGED <<db_cache, db_lock>>
            [] OTHER ->
                 /\ db_lock = 0
                 /\ IF db_cache = << >> /\ file \notin hasTables
                    THEN /\ calls' = [calls EXCEPT ![c] = Return(call, "Storage", {}, {})]
                         /\ available' = available + 1
                         /\ UNCHANGED <<db_cache, db_lock>>
                    ELSE LET rows == IF db_cache = << >> THEN games[file] ELSE db_cache
                         IN /\ db_cache' = rows
                            /\ db_lock' = c
                            /\ calls' = [calls EXCEPT ![c] =
                                  StartScan(call, "localB", rows, Len(rows))]
                            /\ UNCHANGED available
       /\ UNCHANGED <<games, hasTables, pool, line_cache, cache, saved, started,
                      del, indb, walk, imp, mdb, puz, brd, answer, holders>>

(* One row of the scan, up to the result of the walk: the cancellation     *)
(* check, the filters, the reachability gate, the progress event.          *)
RowWorker(c, w) ==
    LET call == calls[c]
    IN /\ call.pc = "scan"
       /\ w <= call.nw
       /\ call.w[w].pc = "idle"
       /\ \E i \in call.todo :
            /\ call.path = "onlineSeq" => \A j \in call.todo : i <= j
            /\ LET row == call.rows[i]
                   taken == [call EXCEPT !.todo = @ \ {i}, !.scanned = TRUE]
                   index == call.processed
                   progress == progress_of(index, call.games_len)
                   counted == [taken EXCEPT
                                 !.processed = index + 1,
                                 !.events = IF index >= call.next_tick
                                            THEN Append(@, [progress |-> progress,
                                                            finished |-> FALSE])
                                            ELSE @,
                                 !.next_tick = IF index >= call.next_tick
                                               THEN @ + call.step ELSE @]
                   found == get_move_after_match(row.moves, row.fen, call.position_query)
               IN calls' = [calls EXCEPT ![c] =
                    IF available = 0
                    THEN [call EXCEPT
                            !.todo = IF call.path = "onlineSeq" THEN {} ELSE @ \ {i},
                            !.skipped = @ \cup (IF call.path = "onlineSeq"
                                                THEN call.todo ELSE {i}),
                            !.scanned = TRUE]
                    ELSE IF ~PassesFilters(call.query, row) THEN taken
                    ELSE IF ~RowCanReach(call.path, call.position_query, row) THEN taken
                    ELSE IF found.tag = "Some"
                    THEN [counted EXCEPT !.w[w] = [pc |-> "sample", row |-> i,
                                                   m |-> found.mv]]
                    ELSE counted]
       /\ UNCHANGED <<games, hasTables, pool, db_cache, db_lock, available,
                      line_cache, cache, saved, started, del, indb, walk, imp, mdb, puz, brd, answer, holders>>

(* lock() on the default local path and in the sequential loop; try_lock() *)
(* on the AverageElo path and in the parallel online branch.               *)
SampleLock(c, w) ==
    LET call == calls[c]
    IN /\ call.pc = "scan"
       /\ call.w[w].pc = "sample"
       /\ IF call.path \in {"localB", "onlineSeq"}
          THEN /\ call.sample_lock = 0
               /\ calls' = [calls EXCEPT ![c].sample_lock = w, ![c].w[w].pc = "push"]
          ELSE calls' = [calls EXCEPT ![c] =
                  IF call.sample_lock = 0
                  THEN [call EXCEPT !.sample_lock = w, !.w[w].pc = "push"]
                  ELSE [call EXCEPT !.w[w].pc = "stats"]]
       /\ UNCHANGED <<games, hasTables, pool, db_cache, db_lock, available,
                      line_cache, cache, saved, started, del, indb, walk, imp, mdb, puz, brd, answer, holders>>

SamplePush(c, w) ==
    LET call == calls[c]
        row == call.rows[call.w[w].row]
        sample == IF call.path = "localAvg"
                  THEN push_top_k(call.sample, MAX_SAMPLE_GAMES,
                                  [avg |-> avg_elo(row.white_elo, row.black_elo),
                                   id |-> row.id])
                  ELSE PushFirstK(call.sample, MAX_SAMPLE_GAMES,
                                  [avg |-> 0, id |-> row.id])
    IN /\ call.pc = "scan"
       /\ call.w[w].pc = "push"
       /\ calls' = [calls EXCEPT ![c].sample = sample, ![c].sample_lock = 0,
                                 ![c].w[w].pc = "stats"]
       /\ UNCHANGED <<games, hasTables, pool, db_cache, db_lock, available,
                      line_cache, cache, saved, started, del, indb, walk, imp, mdb, puz, brd, answer, holders>>

StatsUpdate(c, w) ==
    LET call == calls[c]
        row == call.rows[call.w[w].row]
    IN /\ call.pc = "scan"
       /\ call.w[w].pc = "stats"
       /\ calls' = [calls EXCEPT
                      ![c].openings = UpdateOpenings(@, call.w[w].m, row.result),
                      ![c].w[w] = IdleWorker]
       /\ UNCHANGED <<games, hasTables, pool, db_cache, db_lock, available,
                      line_cache, cache, saved, started, del, indb, walk, imp, mdb, puz, brd, answer, holders>>

(* ScanEnd saving the result before the cancellation check.               *)
ScanEnd_m(c) ==
    LET call == calls[c]
        ids == Ids(call.sample)
    IN /\ call.pc = "scan"
       /\ call.todo = {}
       /\ \A w \in Workers : call.w[w].pc = "idle"
       /\ db_lock' = IF db_lock = c THEN 0 ELSE db_lock
       /\ cache' = save_position_cache(cache, call.fen, call.file, call.openings, ids)
       /\ IF available = 0
          THEN /\ available' = available + 1
               /\ calls' = [calls EXCEPT ![c] =
                     Return([call EXCEPT !.ids = ids, !.wrote = TRUE],
                            "SearchStopped", {}, {})]
          ELSE /\ calls' = [calls EXCEPT ![c].pc = "details", ![c].ids = ids,
                                         ![c].wrote = TRUE]
               /\ UNCHANGED available
       /\ UNCHANGED <<games, hasTables, pool, db_cache, line_cache, saved,
                      started, del, indb, walk, imp, mdb, puz, brd, answer, holders>>

(* The scan returns (the db_cache guard is dropped) and search_position    *)
(* reads available_permits().                                              *)
ScanEnd(c) ==
    LET call == calls[c]
        ids == IF call.path = "localAvg" THEN Ids(SortByAvgDesc(call.sample))
               ELSE Ids(call.sample)
    IN /\ call.pc = "scan"
       /\ call.todo = {}
       /\ \A w \in Workers : call.w[w].pc = "idle"
       /\ db_lock' = IF db_lock = c THEN 0 ELSE db_lock
       /\ IF available = 0
          THEN /\ available' = available + 1
               /\ calls' = [calls EXCEPT ![c] =
                     Return([call EXCEPT !.ids = ids], "SearchStopped", {}, {})]
          ELSE /\ calls' = [calls EXCEPT ![c].pc = "details", ![c].ids = ids]
               /\ UNCHANGED available
       /\ UNCHANGED <<games, hasTables, pool, db_cache, line_cache, cache, saved,
                      started, del, indb, walk, imp, mdb, puz, brd, answer, holders>>

(* The reload of the first game_details_limit sampled games.               *)
LoadDetails(c) ==
    LET call == calls[c]
        ids_to_load == Take(call.ids, game_details_limit(call.query))
    IN /\ call.pc = "details"
       /\ IF ids_to_load # << >> /\ call.file \notin hasTables
          THEN /\ calls' = [calls EXCEPT ![c] = Return(call, "Storage", {}, {})]
               /\ available' = available + 1
          ELSE /\ calls' = [calls EXCEPT ![c].pc = "save",
                                         ![c].details = DetailsOf(call.file, ids_to_load)]
               /\ UNCHANGED available
       /\ UNCHANGED <<games, hasTables, pool, db_cache, db_lock, line_cache,
                      cache, saved, started, del, indb, walk, imp, mdb, puz, brd, answer, holders>>

(* save_position_cache, the terminal event, the permit is dropped.         *)
SaveAndFinish(c) ==
    LET call == calls[c]
        entries == save_position_cache(cache, call.fen, call.file,
                                       call.openings, call.ids)
        key == CacheKey(call.fen, call.file)
    IN /\ call.pc = "save"
       /\ cache' = entries
       /\ saved' = saved \cup {[fen |-> e.fen, path |-> e.path, stats |-> e.stats] :
                               e \in {x \in entries : x.fen = key.fen /\ x.path = key.path}}
       /\ available' = available + 1
       /\ calls' = [calls EXCEPT ![c] =
             Return([call EXCEPT !.wrote = TRUE, !.events = Append(@, Terminal)],
                    "Ok", call.openings, call.details)]
       /\ UNCHANGED <<games, hasTables, pool, db_cache, db_lock, line_cache,
                      started, del, indb, walk, imp, mdb, puz, brd, answer, holders>>

(* A further search_position call, reduced to its permit: acquired before  *)
(* the scan (search.rs 1669) and dropped when the call returns.            *)
HolderAcquire ==
    /\ available > 0
    /\ available' = available - 1
    /\ holders' = holders + 1
    /\ calls' = [d \in Calls |->
          IF calls[d].pc \in {"rows", "scan"}
          THEN [calls[d] EXCEPT !.overlapped = TRUE] ELSE calls[d]]
    /\ UNCHANGED <<games, hasTables, pool, db_cache, db_lock, line_cache, cache, saved,
                   started, del, indb, walk, imp, mdb, puz, brd, answer>>

HolderRelease ==
    /\ holders > 0
    /\ available' = available + 1
    /\ holders' = holders - 1
    /\ UNCHANGED <<games, hasTables, pool, db_cache, db_lock, line_cache, cache, saved,
                   calls, started, del, indb, walk, imp, mdb, puz, brd, answer>>

(***************************************************************************)
(* db/mod.rs: delete_database                                              *)
(***************************************************************************)
IdleDelete == [pc |-> "idle", file |-> NoStr, held |-> 0, count |-> 0]

(* permit1 = acquire().await                                               *)
DeleteAcquire1(file) ==
    /\ del.pc = "idle"
    /\ del.count < MaxDeletes
    /\ available > 0
    /\ available' = available - 1
    /\ del' = [pc |-> "permit2", file |-> file, held |-> 1, count |-> del.count + 1]
    /\ UNCHANGED <<games, hasTables, pool, db_cache, db_lock, line_cache, cache,
                   saved, calls, started, indb, walk, imp, mdb, puz, brd, answer, holders>>

(* permit2 = acquire().await                                               *)
DeleteAcquire2 ==
    /\ del.pc = "permit2"
    /\ available > 0
    /\ available' = available - 1
    /\ del' = [del EXCEPT !.pc = "optimize", !.held = 2]
    /\ UNCHANGED <<games, hasTables, pool, db_cache, db_lock, line_cache, cache,
                   saved, calls, started, indb, walk, imp, mdb, puz, brd, answer, holders>>

(* PRAGMA optimize, then permit1 alone is dropped.                          *)
DeleteOptimize_m ==
    /\ del.pc = "optimize"
    /\ pool' = pool \cup {del.file}
    /\ available' = available + 1
    /\ del' = [del EXCEPT !.pc = "close", !.held = 0]
    /\ UNCHANGED <<games, hasTables, db_cache, db_lock, line_cache, cache,
                   saved, calls, started, indb, walk, imp, mdb, puz, brd, answer, holders>>

(* PRAGMA optimize on a pooled connection, then both permits are dropped.  *)
DeleteOptimize ==
    /\ del.pc = "optimize"
    /\ pool' = pool \cup {del.file}
    /\ available' = available + del.held
    /\ del' = [del EXCEPT !.pc = "close", !.held = 0]
    /\ UNCHANGED <<games, hasTables, db_cache, db_lock, line_cache, cache,
                   saved, calls, started, indb, walk, imp, mdb, puz, brd, answer, holders>>

(* The pool is removed and dropped; the line_cache keys of the file go.    *)
DeleteClosePool ==
    /\ del.pc = "close"
    /\ pool' = pool \ {del.file}
    /\ line_cache' = {k \in line_cache : k.file # del.file}
    /\ del' = [del EXCEPT !.pc = "clear"]
    /\ UNCHANGED <<games, hasTables, db_cache, db_lock, available, cache,
                   saved, calls, started, indb, walk, imp, mdb, puz, brd, answer, holders>>

Disturb(file) ==
    [c \in Calls |->
        IF calls[c].file = file /\ calls[c].pc \notin {"idle", "done"}
        THEN [calls[c] EXCEPT !.disturbed = TRUE] ELSE calls[c]]

DeleteClearCache ==
    /\ del.pc = "clear"
    /\ cache' = clear_cache_for_database(cache, del.file)
    /\ calls' = Disturb(del.file)
    /\ del' = [del EXCEPT !.pc = "remove"]
    /\ UNCHANGED <<games, hasTables, pool, db_cache, db_lock, available,
                   line_cache, saved, started, indb, walk, imp, mdb, puz, brd, answer, holders>>

(* remove_file: the games of the file are gone.                            *)
DeleteRemoveFile ==
    /\ del.pc = "remove"
    /\ games' = [games EXCEPT ![del.file] = << >>]
    /\ hasTables' = hasTables \ {del.file}
    /\ calls' = Disturb(del.file)
    /\ del' = [del EXCEPT !.pc = "idle"]
    /\ UNCHANGED <<pool, db_cache, db_lock, available, line_cache, cache,
                   saved, started, indb, walk, imp, mdb, puz, brd, answer, holders>>

(* db/mod.rs: delete_empty_games deletes the rows whose ply_count is 0.     *)
ply_count(row) == Len(MainLine(row.moves, RowStart(row.fen).chess))

DeleteEmptyGames(file) ==
    /\ file \in hasTables
    /\ games' = [games EXCEPT ![file] = SelectSeq(@, LAMBDA row : ply_count(row) # 0)]
    /\ pool' = pool \cup {file}
    /\ calls' = Disturb(file)
    /\ UNCHANGED <<hasTables, db_cache, db_lock, available, line_cache, cache, saved,
                   started, del, indb, walk, imp, mdb, puz, brd, answer, holders>>

(***************************************************************************)
(* db/search.rs: is_position_in_db                                         *)
(***************************************************************************)
LineKey_m(arg) == [query |-> arg.query, file |-> arg.file]

(* cache_query = query.clone() with game_details_limit = None, and file.   *)
LineKey(arg) ==
    [query |-> [arg.query EXCEPT !.game_details_limit = NoInt], file |-> arg.file]

NoAnswer == [arg |-> NoStr, result |-> "none", cached |-> FALSE]

(* The line_cache holds an entry for the query: the call returns           *)
(* !pos.0.is_empty(), and every entry holds an empty list.                 *)
InDbCached(arg) ==
    /\ LineKey(arg) \in line_cache
    /\ answer' = [arg |-> arg, result |-> "false", cached |-> TRUE]
    /\ UNCHANGED <<games, hasTables, pool, db_cache, db_lock, available, line_cache,
                   cache, saved, calls, started, del, indb, walk, imp, mdb, puz, brd, holders>>

InDbTotal(args) ==
    LET RECURSIVE Sum(_)
        Sum(S) == IF S = {} THEN 0
                  ELSE LET a == CHOOSE x \in S : TRUE IN indb[a] + Sum(S \ {a})
    IN Sum(args)

(* The line_cache holds no answer for the query: a permit is acquired.     *)
InDbAcquire(arg) ==
    /\ LineKey(arg) \notin line_cache
    /\ InDbTotal(DOMAIN indb) < MaxInDb
    /\ available > 0
    /\ available' = available - 1
    /\ indb' = [indb EXCEPT ![arg] = @ + 1]
    /\ UNCHANGED <<games, hasTables, pool, db_cache, db_lock, line_cache, cache,
                   saved, calls, started, del, walk, imp, mdb, puz, brd, answer, holders>>

InDbSample(arg, position_query) ==
    LET rows == games[arg.file]
        t == position_query.material
        keep == {i \in 1..Len(rows) :
                    /\ arg.query.player1 # NoInt => rows[i].white_id = arg.query.player1
                    /\ arg.query.player2 # NoInt => rows[i].black_id = arg.query.player2
                    /\ rows[i].white_material >= t.white
                    /\ rows[i].black_material >= t.black}
    IN {i \in keep : Cardinality({j \in keep : j <= i}) <= IN_DB_LIMIT}

(* The rest of the call: the sampled rows are walked, a negative answer is *)
(* stored in the line_cache, the permit is dropped.                        *)
InDbFinish(arg) ==
    LET position_query == convert_position_query(arg.query.position)
        reads == arg.query.position # NoPosition /\ position_query # FenError
        exists == /\ reads
                  /\ arg.file \in hasTables
                  /\ \E i \in InDbSample(arg, position_query) :
                        get_move_after_match(games[arg.file][i].moves,
                                             games[arg.file][i].fen,
                                             position_query).tag = "Some"
    IN /\ indb[arg] > 0
       /\ indb' = [indb EXCEPT ![arg] = @ - 1]
       /\ available' = available + 1
       /\ pool' = IF reads THEN pool \cup {arg.file} ELSE pool
       /\ line_cache' = IF reads /\ arg.file \in hasTables /\ ~exists
                        THEN line_cache \cup {LineKey(arg)} ELSE line_cache
       /\ answer' = [arg |-> arg, cached |-> FALSE,
                     result |-> IF position_query = FenError
                                   \/ (reads /\ arg.file \notin hasTables) THEN "error"
                                ELSE IF exists THEN "true" ELSE "false"]
       /\ UNCHANGED <<games, hasTables, db_cache, db_lock, cache, saved, calls,
                      started, del, walk, imp, mdb, puz, brd, holders>>

(* db/mod.rs: clear_games                                                  *)
ClearGames ==
    /\ line_cache' = {}
    /\ UNCHANGED <<games, hasTables, pool, db_cache, db_lock, available, cache,
                   saved, calls, started, del, indb, walk, imp, mdb, puz, brd, answer, holders>>

(***************************************************************************)
(* A single run of get_move_after_match on a blob built from chunks        *)
(***************************************************************************)
Chunks ==
    { <<0>>, <<1>>, <<2>>, <<7>>,
      <<NAG, 3>>,
      <<COMMENT, 0, 0, 0, 0, 0, 0, 0, 1, 65>>,
      <<START_VARIATION, 1, END_VARIATION>>,
      <<START_VARIATION, 1, START_VARIATION, 0, END_VARIATION, END_VARIATION>>,
      <<END_VARIATION>> }

Pending == [tag |-> "Pending", mv |-> ""]

IdleWalk ==
    [blob |-> << >>, chunks |-> 0, fen |-> NoFen,
     query |-> NoPosition, res |-> Pending]

WalkFens == {NoFen, FEN_A3, FEN_BAD}

WalkQueries ==
    {q \in [fen : FenKnown \ CaptureFens, type_ : {"exact", "partial"}] :
        convert_position_query(q) # FenError}

WalkAppend(chunk) ==
    /\ walk.query # NoPosition
    /\ walk.res = Pending
    /\ walk.chunks < MaxChunks
    /\ walk' = [walk EXCEPT !.blob = @ \o chunk, !.chunks = @ + 1]
    /\ UNCHANGED <<games, hasTables, pool, db_cache, db_lock, available,
                   line_cache, cache, saved, calls, started, del, indb, imp, mdb, puz, brd, answer, holders>>

WalkRun ==
    /\ walk.query # NoPosition
    /\ walk.res = Pending
    /\ walk' = [walk EXCEPT !.res =
          get_move_after_match(walk.blob, walk.fen, convert_position_query(walk.query))]
    /\ UNCHANGED <<games, hasTables, pool, db_cache, db_lock, available,
                   line_cache, cache, saved, calls, started, del, indb, imp, mdb, puz, brd, answer, holders>>

(***************************************************************************)
(* db/mod.rs: convert_pgn, delete_indexes                                  *)
(***************************************************************************)
FILE_I == "db/import.db3"

(* The games of the archive are numbered 1..n in the order the parser      *)
(* yields them.  rows, tables, indexed and info are the database file;     *)
(* the other fields belong to the running call, inserted, txs and failed   *)
(* recording what its transactions did.                                    *)
IdleImport ==
    [pc |-> "idle", count |-> 0, n |-> 0, next |-> 1, batch |-> << >>,
     total_processed |-> 0, events |-> << >>, needs_init |-> FALSE,
     result |-> NoStr, rows0 |-> 0, inserted |-> {}, txs |-> << >>,
     failed |-> {}, indexedAt |-> NoInt,
     tables |-> FALSE, rows |-> 0, indexed |-> FALSE, info |-> NoInt]

SeqRange(seq) == {seq[i] : i \in 1..Len(seq)}

(* The buffer is never flushed before the end of the archive.              *)
BatchIsFull_m(batch) == FALSE

BatchIsFull(batch) == Len(batch) >= BATCH_SIZE

(* db.transaction(|db| for game in batch.drain(..) { insert_to_db }) and   *)
(* what follows it.  A commit adds the rows of the batch, advances         *)
(* total_processed by add and emits convert_progress.  An insert that      *)
(* fails ends convert_pgn through `?`; the connection runs with            *)
(* journal_mode OFF, under which a rollback is undefined: the rows         *)
(* inserted before the failure are removed or stay.                        *)
Transaction(st, add, then) ==
    LET batch == st.batch
        commit == [st EXCEPT !.rows = @ + Len(batch),
                             !.inserted = @ \cup SeqRange(batch),
                             !.txs = Append(@, batch),
                             !.batch = << >>,
                             !.total_processed = @ + add,
                             !.events = Append(@, st.total_processed + add),
                             !.pc = then]
        abort(kept) == [st EXCEPT !.rows = @ + kept,
                                  !.inserted = @ \cup {batch[j] : j \in 1..kept},
                                  !.failed = SeqRange(batch),
                                  !.batch = << >>,
                                  !.pc = "idle", !.result = "Err"]
    IN {commit} \cup {abort(kept) : kept \in {0} \cup
                         {k - 1 : k \in 1..Len(batch)}}

(* get_db_or_create, the check of the tables, init_db when they are        *)
(* missing, the archive is opened.                                         *)
ConvertStart(n) ==
    /\ imp.pc = "idle"
    /\ imp.count < MaxImports
    /\ imp' = [IdleImport EXCEPT
                 !.pc = "read", !.count = imp.count + 1, !.n = n,
                 !.needs_init = ~imp.tables, !.rows0 = imp.rows,
                 !.tables = TRUE, !.rows = imp.rows, !.indexed = imp.indexed,
                 !.info = imp.info]
    /\ pool' = pool \cup {FILE_I}
    /\ UNCHANGED <<games, hasTables, db_cache, db_lock, available, line_cache,
                   cache, saved, calls, started, del, indb, walk, mdb, puz, brd, answer, holders>>

(* One turn of the loop over the parsed games: the game is pushed, a full  *)
(* buffer is written in one transaction.                                   *)
ConvertRead ==
    /\ imp.pc = "read"
    /\ imp.next <= imp.n
    /\ LET pushed == [imp EXCEPT !.batch = Append(@, imp.next), !.next = @ + 1]
       IN IF BatchIsFull(pushed.batch)
          THEN imp' \in Transaction(pushed, BATCH_SIZE, "read")
          ELSE imp' = pushed
    /\ UNCHANGED <<games, hasTables, pool, db_cache, db_lock, available,
                   line_cache, cache, saved, calls, started, del, indb, walk, mdb, puz, brd, answer, holders>>

(* The archive is exhausted: the remaining games are written.              *)
ConvertTail ==
    /\ imp.pc = "read"
    /\ imp.next > imp.n
    /\ IF imp.batch # << >>
       THEN imp' \in Transaction(imp, Len(imp.batch), "index")
       ELSE imp' = [imp EXCEPT !.pc = "index"]
    /\ UNCHANGED <<games, hasTables, pool, db_cache, db_lock, available,
                   line_cache, cache, saved, calls, started, del, indb, walk, mdb, puz, brd, answer, holders>>

(* if needs_init { db.batch_execute(INDEXES_SQL) }                         *)
ConvertIndexes ==
    /\ imp.pc = "index"
    /\ imp' = IF imp.needs_init
              THEN [imp EXCEPT !.pc = "counts", !.indexed = TRUE,
                               !.indexedAt = imp.rows]
              ELSE [imp EXCEPT !.pc = "counts"]
    /\ UNCHANGED <<games, hasTables, pool, db_cache, db_lock, available,
                   line_cache, cache, saved, calls, started, del, indb, walk, mdb, puz, brd, answer, holders>>

(* The counts are written to the Info table; Ok(()).                       *)
ConvertCounts ==
    /\ imp.pc = "counts"
    /\ imp' = [imp EXCEPT !.pc = "idle", !.info = imp.rows, !.result = "Ok"]
    /\ UNCHANGED <<games, hasTables, pool, db_cache, db_lock, available,
                   line_cache, cache, saved, calls, started, del, indb, walk, mdb, puz, brd, answer, holders>>

(* delete_indexes on the imported database, between two imports.           *)
DeleteIndexes ==
    /\ imp.pc = "idle"
    /\ imp.tables
    /\ imp.indexed
    /\ imp' = [imp EXCEPT !.indexed = FALSE]
    /\ pool' = pool \cup {FILE_I}
    /\ UNCHANGED <<games, hasTables, db_cache, db_lock, available, line_cache,
                   cache, saved, calls, started, del, indb, walk, mdb, puz, brd, answer, holders>>

(***************************************************************************)
(* db/mod.rs: merge_players, with the writers of Players and Info          *)
(***************************************************************************)
(* The ids create_player gave to three names.                              *)
PlayerIds == {1, 2, 3}

NoMerge == [player1 |-> 0, player2 |-> 0, result |-> NoStr]

Tables(db) == [players |-> db.players, games |-> db.games, info |-> db.info]

NoTables == [players |-> {}, games |-> << >>, info |-> NoInt]

(* The database after init_db: no game, no player, no PlayerCount yet.     *)
(* merges counts the merge_players calls; last, before and after record    *)
(* the latest call and the tables around it, until the tables are written  *)
(* again.                                                                  *)
FreshDb ==
    [players |-> {}, games |-> << >>, info |-> NoInt, merges |-> 0,
     last |-> NoMerge, before |-> NoTables, after |-> NoTables]

(* merge_players that moves the white side only.                           *)
merge_players_m(db, player1, player2) ==
    IF \E g \in 1..Len(db.games) :
          \/ db.games[g].white_id = player1 /\ db.games[g].black_id = player2
          \/ db.games[g].white_id = player2 /\ db.games[g].black_id = player1
    THEN [db |-> db, result |-> "NotDistinctPlayers"]
    ELSE LET players == db.players \ {player1}
         IN [db |-> [db EXCEPT
                       !.games = [g \in 1..Len(db.games) |->
                                    IF db.games[g].white_id = player1
                                    THEN [db.games[g] EXCEPT !.white_id = player2]
                                    ELSE db.games[g]],
                       !.players = players,
                       !.info = Cardinality(players)],
             result |-> "Ok"]

(* merge_players that looks for common games in one colour order only.     *)
merge_players_o(db, player1, player2) ==
    IF \E g \in 1..Len(db.games) :
          db.games[g].white_id = player1 /\ db.games[g].black_id = player2
    THEN [db |-> db, result |-> "NotDistinctPlayers"]
    ELSE LET players == db.players \ {player1}
         IN [db |-> [db EXCEPT
                       !.games = [g \in 1..Len(db.games) |->
                                    [db.games[g] EXCEPT
                                       !.white_id = IF @ = player1 THEN player2 ELSE @,
                                       !.black_id = IF @ = player1 THEN player2 ELSE @]],
                       !.players = players,
                       !.info = Cardinality(players)],
             result |-> "Ok"]

(* The count of common games, then the two updates, the delete and the     *)
(* upsert of PlayerCount.                                                  *)
merge_players(db, player1, player2) ==
    LET count == Cardinality({g \in 1..Len(db.games) :
                    \/ db.games[g].white_id = player1 /\ db.games[g].black_id = player2
                    \/ db.games[g].white_id = player2 /\ db.games[g].black_id = player1})
    IN IF count > 0 THEN [db |-> db, result |-> "NotDistinctPlayers"]
       ELSE LET white == [g \in 1..Len(db.games) |->
                            IF db.games[g].white_id = player1
                            THEN [db.games[g] EXCEPT !.white_id = player2]
                            ELSE db.games[g]]
                black == [g \in 1..Len(white) |->
                            IF white[g].black_id = player1
                            THEN [white[g] EXCEPT !.black_id = player2]
                            ELSE white[g]]
                players == db.players \ {player1}
            IN [db |-> [db EXCEPT !.games = black, !.players = players,
                                  !.info = Cardinality(players)],
                result |-> "Ok"]

(* insert_to_db of one game: create_player for both names, add_game.       *)
InsertToDb(white, black, result) ==
    /\ Len(mdb.games) < MaxMergeGames
    /\ mdb' = [mdb EXCEPT
                 !.players = @ \cup {white, black},
                 !.games = Append(@, [id |-> Len(mdb.games) + 1, white_id |-> white,
                                      black_id |-> black, result |-> result]),
                 !.last = NoMerge, !.before = NoTables, !.after = NoTables]
    /\ UNCHANGED <<games, hasTables, pool, db_cache, db_lock, available,
                   line_cache, cache, saved, calls, started, del, indb, walk, imp, puz, brd, answer, holders>>

(* The end of a convert_pgn that returns Ok: the counts go to Info.         *)
WriteCounts ==
    /\ mdb.info # Cardinality(mdb.players)
    /\ mdb' = [mdb EXCEPT !.info = Cardinality(mdb.players),
                          !.last = NoMerge, !.before = NoTables, !.after = NoTables]
    /\ UNCHANGED <<games, hasTables, pool, db_cache, db_lock, available,
                   line_cache, cache, saved, calls, started, del, indb, walk, imp, puz, brd, answer, holders>>

MergePlayers(player1, player2) ==
    /\ mdb.merges < MaxMerges
    /\ LET r == merge_players(mdb, player1, player2)
       IN mdb' = [r.db EXCEPT
                    !.merges = mdb.merges + 1,
                    !.last = [player1 |-> player1, player2 |-> player2,
                              result |-> r.result],
                    !.before = Tables(mdb),
                    !.after = Tables(r.db)]
    /\ UNCHANGED <<games, hasTables, pool, db_cache, db_lock, available,
                   line_cache, cache, saved, calls, started, del, indb, walk, imp, puz, brd, answer, holders>>

(***************************************************************************)
(* The puzzle catalog (puzzle.rs)                                          *)
(*                                                                         *)
(* A text column is a sequence of one-character strings; a tag is the      *)
(* sequence of its characters.  An Option is a record: None, or Some(v).   *)
(***************************************************************************)
cache_size == 2          \* PuzzleCache::new: 20, scaled
batch_size == 2          \* populate_normalized_tables: 500, scaled
MaxPuzzleCalls == 4
MaxPuzzles == 3

FILE_Z == "puzzles/lichess.db3"
FILE_Y == "puzzles/old.db3"
FILE_N == "puzzles/new.db3"
PuzzleFiles == {FILE_Z, FILE_Y, FILE_N}

SP == " "
NullText == <<"NULL">>
None == [some |-> FALSE, v |-> << >>]
Some(v) == [some |-> TRUE, v |-> v]

(* str::split_whitespace: the maximal runs of non-whitespace characters.    *)
RECURSIVE split_from(_, _, _)
split_from(text, i, word) ==
    IF i > Len(text)
    THEN IF word = << >> THEN << >> ELSE <<word>>
    ELSE IF text[i] = SP
         THEN (IF word = << >> THEN << >> ELSE <<word>>) \o split_from(text, i + 1, << >>)
         ELSE split_from(text, i + 1, Append(word, text[i]))

split_whitespace(text) == split_from(text, 1, << >>)

NoPuzzle == [id |-> 0, rating |-> 0, themes |-> NullText, opening_tags |-> NullText]
NoPuzzleDb == [tables |-> "none", puzzles |-> << >>,
               puzzle_themes |-> << >>, puzzle_opening_tags |-> << >>]
NoPuzzleCall == [file |-> NoStr, min_rating |-> 0, max_rating |-> 0, random |-> TRUE,
                 themes |-> None, opening_tags |-> None,
                 result |-> NoStr, puzzle |-> NoPuzzle, reloaded |-> FALSE,
                 unserved |-> NoPuzzle]
NoPopulate == [file |-> NoStr, result |-> NoStr]


(* The rows populate_normalized_tables pushes for one puzzle.               *)
theme_rows(p) ==
    IF p.themes = NullText THEN << >>
    ELSE LET t == split_whitespace(p.themes)
         IN [i \in 1..Len(t) |-> [puzzle_id |-> p.id, tag |-> t[i]]]

tag_rows(p) ==
    IF p.opening_tags = NullText THEN << >>
    ELSE LET t == split_whitespace(p.opening_tags)
         IN IF t = << >> THEN << >> ELSE <<[puzzle_id |-> p.id, tag |-> t[1]]>>

(* One transaction of INSERTs into a junction table whose PRIMARY KEY is    *)
(* (puzzle_id, tag): a second row of a key fails the INSERT and the         *)
(* transaction is rolled back.                                              *)
HasKeyTwice(rows) == \E i, j \in 1..Len(rows) : i < j /\ rows[i] = rows[j]

InsertBatch(table, batch) ==
    IF HasKeyTwice(table \o batch) THEN [ok |-> FALSE, table |-> table]
    ELSE [ok |-> TRUE, table |-> table \o batch]

FlushIf(cond, table, batch) ==
    IF cond THEN InsertBatch(table, batch) ELSE [ok |-> TRUE, table |-> table]

RECURSIVE populate_from(_, _, _, _)
populate_from(i, theme_batch, tag_batch, db) ==
    IF i > Len(db.puzzles)
    THEN LET t == FlushIf(theme_batch # << >>, db.puzzle_themes, theme_batch)
             db1 == [db EXCEPT !.puzzle_themes = t.table]
             g == FlushIf(tag_batch # << >>, db.puzzle_opening_tags, tag_batch)
         IN IF ~t.ok THEN [ok |-> FALSE, db |-> db]
            ELSE [ok |-> g.ok, db |-> [db1 EXCEPT !.puzzle_opening_tags = g.table]]
    ELSE LET tb == theme_batch \o theme_rows(db.puzzles[i])
             gb == tag_batch \o tag_rows(db.puzzles[i])
             t == FlushIf(Len(tb) >= batch_size, db.puzzle_themes, tb)
             db1 == [db EXCEPT !.puzzle_themes = t.table]
             g == FlushIf(Len(gb) >= batch_size, db.puzzle_opening_tags, gb)
         IN IF ~t.ok THEN [ok |-> FALSE, db |-> db]
            ELSE IF ~g.ok THEN [ok |-> FALSE, db |-> db1]
            ELSE populate_from(i + 1,
                               IF Len(tb) >= batch_size THEN << >> ELSE tb,
                               IF Len(gb) >= batch_size THEN << >> ELSE gb,
                               [db1 EXCEPT !.puzzle_opening_tags = g.table])

populate_normalized_tables(db) ==
    populate_from(1, << >>, << >>,
                  [db EXCEPT !.puzzle_themes = << >>, !.puzzle_opening_tags = << >>])

(* migrate_puzzle_database_to_normalized on a database that holds both      *)
(* junction tables or none; locked: the CREATE TABLE fails.                 *)
migrate_puzzle_database_to_normalized(db, locked) ==
    IF db.tables = "both" THEN [ok |-> TRUE, db |-> db]
    ELSE IF locked THEN [ok |-> FALSE, db |-> db]
    ELSE populate_normalized_tables([db EXCEPT !.tables = "both"])

(* FILE_Z: an imported database, its junction tables populated.  FILE_Y: a  *)
(* database created before the junction tables existed.  FILE_N: another    *)
(* such database, still empty.                                              *)
PuzzlesZ ==
    << [id |-> 1, rating |-> 1, themes |-> <<"f", SP, "m">>,
        opening_tags |-> <<"s", SP, "n">>],
       [id |-> 2, rating |-> 2, themes |-> <<"m">>, opening_tags |-> <<"s">>],
       [id |-> 3, rating |-> 3, themes |-> <<"f">>,
        opening_tags |-> <<"n", SP, "s">>] >>

PuzzlesY ==
    << [id |-> 4, rating |-> 2, themes |-> <<"m", SP, "f">>, opening_tags |-> NullText],
       [id |-> 5, rating |-> 2, themes |-> NullText, opening_tags |-> <<"s">>] >>

FreshPuz ==
    [cache |-> << >>, counter |-> 0, min_rating |-> 0, max_rating |-> 0,
     random |-> TRUE, themes |-> None, opening_tags |-> None,
     dbs |-> (FILE_Z :> populate_normalized_tables(
                            [NoPuzzleDb EXCEPT !.tables = "both", !.puzzles = PuzzlesZ]).db)
             @@ (FILE_Y :> [NoPuzzleDb EXCEPT !.puzzles = PuzzlesY])
             @@ (FILE_N :> NoPuzzleDb),
     calls |-> 0, last |-> NoPuzzleCall, populate |-> NoPopulate]

(* The WHERE clause of the JOIN query.                                      *)
JoinMatches(db, p, min_rating, max_rating, themes, opening_tags) ==
    /\ p.rating >= min_rating /\ p.rating <= max_rating
    /\ (themes.some /\ themes.v # << >>) =>
           \E r \in SeqRange(db.puzzle_themes) :
               r.puzzle_id = p.id /\ r.tag \in SeqRange(themes.v)
    /\ (opening_tags.some /\ opening_tags.v # << >>) =>
           \E r \in SeqRange(db.puzzle_opening_tags) :
               r.puzzle_id = p.id /\ r.tag \in SeqRange(opening_tags.v)

Window(rows, offset) == SubSeq(rows, offset + 1, Min(Len(rows), offset + cache_size))

Draws(rows, n) ==
    {s \in [1..n -> SeqRange(rows)] : \A i, j \in 1..n : i # j => s[i] # s[j]}

Shuffles(rows) == Draws(rows, Len(rows))

(* The results get_puzzles_with_normalized_tables can return: the puzzles   *)
(* table is read in id order.                                               *)
get_puzzles_with_normalized_tables(db, min_rating, max_rating, random, themes, opening_tags) ==
    LET rows == SelectSeq(db.puzzles,
                    LAMBDA p : JoinMatches(db, p, min_rating, max_rating, themes, opening_tags))
        total_count == Len(rows)
        offsets == IF total_count > cache_size
                   THEN 0..(total_count - Min(cache_size, total_count) - 1)
                   ELSE {0}
    IN IF random
       THEN IF total_count = 0 THEN {<< >>}
            ELSE UNION {Shuffles(Window(rows, o)) : o \in offsets}
       ELSE {Window(rows, 0)}

(* SQLite's LIKE: ASCII letters match in either case.                       *)
lower(c) ==
    CASE c = "F" -> "f" [] c = "M" -> "m" [] c = "S" -> "s" [] c = "N" -> "n"
      [] OTHER -> c

Fold(text) == [i \in 1..Len(text) |-> lower(text[i])]

HasInfix(text, s) ==
    \E i \in 0..(Len(text) - Len(s)) : SubSeq(text, i + 1, i + Len(s)) = s

HasPrefix(text, s) == Len(s) <= Len(text) /\ SubSeq(text, 1, Len(s)) = s

HasSuffix(text, s) ==
    Len(s) <= Len(text) /\ SubSeq(text, Len(text) - Len(s) + 1, Len(text)) = s

themes_like(text, t) ==
    \/ HasInfix(Fold(text), <<SP>> \o Fold(t) \o <<SP>>)
    \/ HasPrefix(Fold(text), Fold(t) \o <<SP>>)
    \/ HasSuffix(Fold(text), <<SP>> \o Fold(t))
    \/ text = t

opening_tags_like(text, t) ==
    \/ HasPrefix(Fold(text), Fold(t) \o <<SP>>)
    \/ text = t

LikeMatches(p, min_rating, max_rating, themes, opening_tags) ==
    /\ p.rating <= max_rating /\ p.rating >= min_rating
    /\ (themes.some /\ themes.v # << >>) =>
           /\ p.themes # NullText
           /\ \E t \in SeqRange(themes.v) : themes_like(p.themes, t)
    /\ (opening_tags.some /\ opening_tags.v # << >>) =>
           /\ p.opening_tags # NullText
           /\ \E t \in SeqRange(opening_tags.v) : opening_tags_like(p.opening_tags, t)

(* The fallback query: ORDER BY RANDOM() or by id, LIMIT cache_size.        *)
get_puzzles_with_like(db, min_rating, max_rating, random, themes, opening_tags) ==
    LET rows == SelectSeq(db.puzzles,
                    LAMBDA p : LikeMatches(p, min_rating, max_rating, themes, opening_tags))
    IN IF random THEN Draws(rows, Min(cache_size, Len(rows)))
       ELSE {Window(rows, 0)}

NeedsReload_m(c, min_rating, max_rating, random, themes, opening_tags) ==
    \/ c.cache = << >>
    \/ c.counter >= cache_size

NeedsReload(c, min_rating, max_rating, random, themes, opening_tags) ==
    \/ c.cache = << >>
    \/ c.min_rating # min_rating
    \/ c.max_rating # max_rating
    \/ c.random # random
    \/ c.themes # themes
    \/ c.opening_tags # opening_tags
    \/ c.counter >= cache_size

(* get_next_puzzle on the cache c: the puzzle at counter, if any.           *)
get_next_puzzle(c) ==
    IF c.counter < Len(c.cache)
    THEN [c |-> [c EXCEPT !.counter = @ + 1], result |-> "Ok",
          puzzle |-> c.cache[c.counter + 1]]
    ELSE [c |-> c, result |-> "NoPuzzles", puzzle |-> NoPuzzle]

(* get_puzzle: get_puzzles_with_filters, then get_next_puzzle, under the    *)
(* PUZZLE_CACHE mutex.                                                      *)
GetPuzzle(file, min_rating, max_rating, random, themes, opening_tags) ==
    /\ puz.calls < MaxPuzzleCalls
    /\ LET reload == NeedsReload(puz, min_rating, max_rating, random, themes, opening_tags)
           Served(c) ==
               LET n == get_next_puzzle(c)
               IN [n.c EXCEPT
                     !.calls = puz.calls + 1,
                     !.populate = NoPopulate,
                     !.last = [file |-> file, min_rating |-> min_rating,
                               max_rating |-> max_rating, random |-> random,
                               themes |-> themes, opening_tags |-> opening_tags,
                               result |-> n.result, puzzle |-> n.puzzle,
                               reloaded |-> reload,
                               unserved |-> get_next_puzzle(puz).puzzle]]
       IN IF ~reload THEN puz' = Served(puz)
          ELSE \E locked \in BOOLEAN :
                 LET db0 == puz.dbs[file]
                     needs_migration == db0.tables # "both"
                     db == IF needs_migration
                           THEN migrate_puzzle_database_to_normalized(db0, locked).db
                           ELSE db0
                     has_normalized_tables == db.tables = "both"
                     loads == IF has_normalized_tables /\ (themes.some \/ opening_tags.some)
                              THEN get_puzzles_with_normalized_tables(
                                       db, min_rating, max_rating, random, themes, opening_tags)
                              ELSE get_puzzles_with_like(
                                       db, min_rating, max_rating, random, themes, opening_tags)
                 IN /\ (locked => needs_migration)
                    /\ \E new_puzzles \in loads :
                         puz' = Served([puz EXCEPT
                                          !.cache = new_puzzles, !.counter = 0,
                                          !.min_rating = min_rating,
                                          !.max_rating = max_rating,
                                          !.random = random, !.themes = themes,
                                          !.opening_tags = opening_tags,
                                          !.dbs[file] = db])
    /\ UNCHANGED <<games, hasTables, pool, db_cache, db_lock, available, line_cache,
                   cache, saved, calls, started, del, indb, walk, imp, mdb, brd, answer, holders>>

(* One record of an import: a row of the puzzles table, its text columns    *)
(* as the record has them.                                                  *)
InsertPuzzle(file, themes, opening_tags) ==
    /\ puz.populate.result = NoStr
    /\ puz.dbs[file].tables = "none"
    /\ Len(puz.dbs[file].puzzles) < MaxPuzzles
    /\ puz' = [puz EXCEPT
                 !.dbs[file].puzzles =
                     Append(@, [id |-> Len(@) + 1, rating |-> 1, themes |-> themes,
                                opening_tags |-> opening_tags])]
    /\ UNCHANGED <<games, hasTables, pool, db_cache, db_lock, available, line_cache,
                   cache, saved, calls, started, del, indb, walk, imp, mdb, brd, answer, holders>>

(* The migration of a database that was created without junction tables.    *)
MigratePopulate(file) ==
    /\ puz.populate.result = NoStr
    /\ puz.dbs[file].tables = "none"
    /\ puz.dbs[file].puzzles # << >>
    /\ LET r == migrate_puzzle_database_to_normalized(puz.dbs[file], FALSE)
       IN puz' = [puz EXCEPT
                    !.dbs[file] = r.db,
                    !.populate = [file |-> file,
                                  result |-> IF r.ok THEN "Ok" ELSE "Err"]]
    /\ UNCHANGED <<games, hasTables, pool, db_cache, db_lock, available, line_cache,
                   cache, saved, calls, started, del, indb, walk, imp, mdb, brd, answer, holders>>

(***************************************************************************)
(* Evaluations of the board fingerprints and of the query predicates       *)
(***************************************************************************)
MaxPlies == 4

(* Board::default().                                                       *)
StandardBoard ==
    [kings |-> {4, 60}, queens |-> {3, 59}, rooks |-> {0, 7, 56, 63},
     bishops |-> {2, 5, 58, 61}, knights |-> {1, 6, 57, 62},
     pawns |-> (8..15) \cup (48..55), white |-> 0..15, black |-> 48..63]

(* Board::from_ascii_board_fen of a placement: a pawn or a knight of either *)
(* colour, or nothing, on each of some squares.                             *)
Pieces == {"-", "P", "p", "N", "n"}

BoardOf(placing) ==
    LET on(ps) == {s \in DOMAIN placing : placing[s] \in ps}
    IN [EmptyBoard EXCEPT !.pawns = on({"P", "p"}), !.knights = on({"N", "n"}),
                          !.white = on({"P", "N"}), !.black = on({"p", "n"})]

BoardsOn(squares) == {BoardOf(placing) : placing \in [squares -> Pieces]}

FenBoards == {FenIntoSetup(fen).board : fen \in FenKnown}

FingerprintBoards == BoardsOn({8, 15, 20, 48, 55}) \cup FenBoards \cup {StandardBoard}

QueryBoards == BoardsOn({8, 20}) \cup FenBoards

TestedBoards == BoardsOn({8, 20, 48}) \cup FenBoards \cup {StandardBoard}

(* The material and pawn_home columns and query fields of an evaluation.    *)
Materials == {[white |-> w, black |-> b] : w \in 0..2, b \in 0..2}

PawnHomes == {0, 1, 3, 256, 257, 65535}

ExactData(material, pawn_home) ==
    [kind |-> "Exact", pawn_home |-> pawn_home, material |-> material,
     position |-> ChessDefault]

PartialData(board, material) ==
    LET setup == [board |-> board, turn |-> "w", ep |-> "-"]
    IN [kind |-> "Partial", piece_positions |-> setup, material |-> material,
        masks |-> PartialMasks_from_setup(setup)]

IdleBoard ==
    [kind |-> "idle", query |-> FenError, board |-> EmptyBoard,
     material |-> [white |-> 0, black |-> 0], pawn_home |-> 0,
     can_reach |-> FALSE, is_reachable_by |-> FALSE, matches |-> FALSE,
     start |-> ChessDefault, start_pawn_home |-> 0, position |-> ChessDefault,
     plies |-> 0]

(* get_pawn_home of a board.                                                *)
Fingerprint(board) ==
    /\ brd.kind = "idle"
    /\ brd' = [IdleBoard EXCEPT !.kind = "fingerprint", !.board = board,
                                !.pawn_home = get_pawn_home(board)]
    /\ UNCHANGED <<games, hasTables, pool, db_cache, db_lock, available, line_cache,
                   cache, saved, calls, started, del, indb, walk, imp, mdb, puz, answer, holders>>

(* can_reach and is_reachable_by of a query on a material and a pawn_home.  *)
Reach(query, material, pawn_home) ==
    /\ brd.kind = "idle"
    /\ brd' = [IdleBoard EXCEPT
                 !.kind = "reach", !.query = query,
                 !.material = material, !.pawn_home = pawn_home,
                 !.can_reach = can_reach(query, material, pawn_home),
                 !.is_reachable_by = is_reachable_by(query, material, pawn_home)]
    /\ UNCHANGED <<games, hasTables, pool, db_cache, db_lock, available, line_cache,
                   cache, saved, calls, started, del, indb, walk, imp, mdb, puz, answer, holders>>

(* matches of a partial query on a position.                                *)
Match(query, board) ==
    /\ brd.kind = "idle"
    /\ brd' = [IdleBoard EXCEPT
                 !.kind = "match", !.query = query, !.board = board,
                 !.matches = matches(query, [board |-> board, turn |-> "w",
                                             ep |-> "-"])]
    /\ UNCHANGED <<games, hasTables, pool, db_cache, db_lock, available, line_cache,
                   cache, saved, calls, started, del, indb, walk, imp, mdb, puz, answer, holders>>

(* A game from a starting position: the fingerprint of the start, then of   *)
(* the board after each move played.                                        *)
PlayStart(fen) ==
    /\ brd.kind = "idle"
    /\ SetupIsPosition(FenIntoSetup(fen))
    /\ brd' = [IdleBoard EXCEPT
                 !.kind = "play", !.start = FenIntoSetup(fen),
                 !.start_pawn_home = get_pawn_home(FenIntoSetup(fen).board),
                 !.position = FenIntoSetup(fen),
                 !.pawn_home = get_pawn_home(FenIntoSetup(fen).board)]
    /\ UNCHANGED <<games, hasTables, pool, db_cache, db_lock, available, line_cache,
                   cache, saved, calls, started, del, indb, walk, imp, mdb, puz, answer, holders>>

PlayMove ==
    /\ brd.kind = "play"
    /\ brd.plies < MaxPlies
    /\ \E i \in 1..Len(LegalMoves(brd.position)) :
          LET next == Play(brd.position, LegalMoves(brd.position)[i])
          IN brd' = [brd EXCEPT !.position = next, !.plies = @ + 1,
                                !.pawn_home = get_pawn_home(next.board)]
    /\ UNCHANGED <<games, hasTables, pool, db_cache, db_lock, available, line_cache,
                   cache, saved, calls, started, del, indb, walk, imp, mdb, puz, answer, holders>>

(***************************************************************************)
(* Specifications                                                          *)
(***************************************************************************)
ExactStart == [fen |-> FEN_START, type_ |-> "exact"]

InDbArgs ==
    { [file |-> FILE_A, query |-> GameQuery([fen |-> FEN_ND5, type_ |-> "exact"],
                                            "Id", NoInt, NoStr)] }

InitState(db, entries) ==
    /\ games = db
    /\ hasTables = DOMAIN db
    /\ pool = {}
    /\ db_cache = << >>
    /\ db_lock = 0
    /\ available = PERMITS
    /\ line_cache = {}
    /\ cache = entries
    /\ saved = {[fen |-> e.fen, path |-> e.path, stats |-> e.stats] : e \in entries}
    /\ calls = [c \in Calls |-> IdleCall]
    /\ started = 0
    /\ del = IdleDelete
    /\ indb = [a \in InDbArgs |-> 0]
    /\ imp = IdleImport
    /\ mdb = FreshDb
    /\ puz = FreshPuz
    /\ brd = IdleBoard
    /\ answer = NoAnswer
    /\ holders = 0

SearchSteps(c) ==
    \/ IsPositionCached(c)
    \/ GetCachedPosition(c)
    \/ AcquirePermit(c)
    \/ LoadRows(c)
    \/ \E w \in Workers : RowWorker(c, w)
    \/ \E w \in Workers : SampleLock(c, w)
    \/ \E w \in Workers : SamplePush(c, w)
    \/ \E w \in Workers : StatsUpdate(c, w)
    \/ ScanEnd(c)
    \/ LoadDetails(c)
    \/ SaveAndFinish(c)

(* Searches of two local databases and the deletion of a database.         *)
Init ==
    /\ InitState((FILE_A :> GamesA) @@ (FILE_B :> GamesB), {})
    /\ walk = IdleWalk

Next ==
    \/ \E c \in Calls, file \in {FILE_A, FILE_B} :
          SearchStart(c, file, GameQuery(ExactStart, "Id", NoInt, NoStr), 1, MaxStarts)
    \/ \E c \in Calls : SearchSteps(c)
    \/ DeleteAcquire1(FILE_A)
    \/ DeleteAcquire2
    \/ DeleteOptimize
    \/ DeleteClosePool
    \/ DeleteClearCache
    \/ DeleteRemoveFile

Spec == Init /\ [][Next]_vars

(* Searches of one database while is_position_in_db calls hold permits.    *)
InitSem ==
    /\ InitState((FILE_A :> GamesA), {})
    /\ walk = IdleWalk

NextSem ==
    \/ \E c \in Calls :
          SearchStart(c, FILE_A, GameQuery(ExactStart, "Id", NoInt, NoStr), 1, MaxSemStarts)
    \/ \E c \in Calls : SearchSteps(c)
    \/ \E arg \in InDbArgs : InDbAcquire(arg)
    \/ \E arg \in InDbArgs : InDbFinish(arg)

SpecSem == InitSem /\ [][NextSem]_vars

(* One search at a time, two row workers, every scan path.                 *)
ScanQueries ==
    {GameQuery(ExactStart, sort, NoInt, NoStr) : sort \in {"Id", "AverageElo"}}
    \cup {GameQuery([fen |-> FEN_A3, type_ |-> "exact"], "Id", NoInt, "whitewon"),
          GameQuery([fen |-> FEN_EMPTY, type_ |-> "partial"], "Id", NoInt, NoStr)}
    \cup {GameQuery([fen |-> FEN_A3, type_ |-> "exact"], "Id", 0, "whitewon"),
          GameQuery(ExactStart, "Id", DETAILS_MAX + 1, NoStr)}

(* What an earlier run of the application left in position_cache.db3: the  *)
(* result of the third query of ScanQueries on FILE_O.                     *)
PersistedCache ==
    save_position_cache({}, FEN_A3, FILE_O,
                        {[move |-> "a6", white |-> 1, draw |-> 0, black |-> 0]},
                        <<1>>)

InitScan ==
    /\ InitState((FILE_A :> GamesA3) @@ (FILE_C :> GamesC) @@ (FILE_O :> GamesO)
                     @@ (FILE_P :> GamesP),
                 PersistedCache)
    /\ walk = IdleWalk

NextScan ==
    \/ \E file \in {FILE_A, FILE_C, FILE_O, FILE_P}, query \in ScanQueries :
          SearchStart(1, file, query, 2, MaxScanStarts)
    \/ SearchSteps(1)

SpecScan == InitScan /\ [][NextScan]_vars

(* get_move_after_match on every blob of at most MaxChunks chunks.         *)
InitWalk ==
    /\ InitState((FILE_A :> GamesA), {})
    /\ walk \in {[IdleWalk EXCEPT !.fen = f, !.query = q] :
                    f \in WalkFens, q \in WalkQueries}

NextWalk ==
    \/ \E chunk \in Chunks : WalkAppend(chunk)
    \/ WalkRun

SpecWalk == InitWalk /\ [][NextWalk]_vars

(* is_position_in_db alone, on a local and on a downloaded database.       *)
InDbProbeArgs ==
    { [file |-> f, query |-> GameQuery([fen |-> fen, type_ |-> "exact"],
                                       "Id", NoInt, NoStr)] :
        f \in {FILE_A, FILE_O}, fen \in {FEN_START, FEN_ND5} }

InitInDb ==
    /\ games = (FILE_A :> GamesA) @@ (FILE_O :> GamesO)
    /\ hasTables = DOMAIN games
    /\ pool = {}
    /\ db_cache = << >>
    /\ db_lock = 0
    /\ available = PERMITS
    /\ line_cache = {}
    /\ cache = {}
    /\ saved = {}
    /\ calls = [c \in Calls |-> IdleCall]
    /\ started = 0
    /\ del = IdleDelete
    /\ indb = [a \in InDbProbeArgs |-> 0]
    /\ imp = IdleImport
    /\ mdb = FreshDb
    /\ puz = FreshPuz
    /\ brd = IdleBoard
    /\ answer = NoAnswer
    /\ holders = 0
    /\ walk = IdleWalk

NextInDb ==
    \/ \E arg \in InDbProbeArgs : InDbAcquire(arg)
    \/ \E arg \in InDbProbeArgs : InDbFinish(arg)

SpecInDb == InitInDb /\ [][NextInDb]_vars

(* is_position_in_db calls that differ in game_details_limit, clear_games   *)
(* and the deletion of one of the two databases.                           *)
LineArgs ==
    { [file |-> f, query |-> GameQuery([fen |-> FEN_ND5, type_ |-> "exact"],
                                       "Id", limit, NoStr)] :
        f \in {FILE_A, FILE_B}, limit \in {NoInt, 1} }
    \cup { [file |-> FILE_A, query |-> GameQuery([fen |-> fen, type_ |-> "exact"],
                                                "Id", NoInt, NoStr)] :
             fen \in {FEN_START, FEN_BAD} }

InitLine ==
    /\ games = (FILE_A :> GamesA) @@ (FILE_B :> GamesB)
    /\ hasTables = DOMAIN games
    /\ pool = {}
    /\ db_cache = << >>
    /\ db_lock = 0
    /\ available = PERMITS
    /\ line_cache = {}
    /\ cache = {}
    /\ saved = {}
    /\ calls = [c \in Calls |-> IdleCall]
    /\ started = 0
    /\ del = IdleDelete
    /\ indb = [a \in LineArgs |-> 0]
    /\ imp = IdleImport
    /\ mdb = FreshDb
    /\ puz = FreshPuz
    /\ brd = IdleBoard
    /\ answer = NoAnswer
    /\ holders = 0
    /\ walk = IdleWalk

NextLine ==
    \/ \E arg \in LineArgs : InDbCached(arg)
    \/ /\ InDbTotal(DOMAIN indb) < MaxLineCalls
       /\ \E arg \in LineArgs : InDbAcquire(arg)
    \/ \E arg \in LineArgs : InDbFinish(arg)
    \/ ClearGames
    \/ DeleteAcquire1(FILE_A)
    \/ DeleteAcquire2
    \/ DeleteOptimize
    \/ DeleteClosePool
    \/ DeleteClearCache
    \/ DeleteRemoveFile

SpecLine == InitLine /\ [][NextLine]_vars

(* get_move_after_match on games in which a capture and a pawn move come   *)
(* before the queried position.                                            *)
PruneFens == {NoFen, FEN_NF6}

PruneQueries ==
    {[fen |-> fen, type_ |-> "exact"] : fen \in {FEN_A3A6, FEN_ND5, FEN_NXG8, FEN_NXG8A6}}

InitPrune ==
    /\ InitState((FILE_A :> GamesA), {})
    /\ walk \in {[IdleWalk EXCEPT !.fen = f, !.query = q] :
                    f \in PruneFens, q \in PruneQueries}

NextPrune ==
    \/ \E chunk \in Chunks : WalkAppend(chunk)
    \/ WalkRun

SpecPrune == InitPrune /\ [][NextPrune]_vars

(* Consecutive searches of one database for one fen, with different        *)
(* position types and wanted results.                                      *)
SameFenQueries ==
    { GameQuery([fen |-> FEN_START, type_ |-> "exact"], "Id", NoInt, NoStr),
      GameQuery([fen |-> FEN_START, type_ |-> "exact"], "Id", NoInt, "whitewon"),
      GameQuery([fen |-> FEN_START, type_ |-> "partial"], "Id", NoInt, NoStr) }

InitQuery ==
    /\ InitState((FILE_A :> GamesA), {})
    /\ walk = IdleWalk

NextQuery ==
    \/ \E query \in SameFenQueries : SearchStart(1, FILE_A, query, 1, MaxQueryStarts)
    \/ SearchSteps(1)

SpecQuery == InitQuery /\ [][NextQuery]_vars

(* Searches of a database before and after delete_empty_games.             *)
StaleQueries ==
    {GameQuery([fen |-> fen, type_ |-> "exact"], "Id", NoInt, NoStr) :
        fen \in {FEN_START, FEN_A3}}

InitStale ==
    /\ InitState((FILE_A :> GamesE), {})
    /\ walk = IdleWalk

NextStale ==
    \/ \E query \in StaleQueries : SearchStart(1, FILE_A, query, 1, MaxStaleStarts)
    \/ SearchSteps(1)
    \/ DeleteEmptyGames(FILE_A)

SpecStale == InitStale /\ [][NextStale]_vars

(* One scan of a database in which more games match than the sample holds. *)
InitCap ==
    /\ InitState((FILE_A :> GamesA4), {})
    /\ walk = IdleWalk

NextCap ==
    \/ \E query \in {GameQuery(ExactStart, sort, NoInt, NoStr) : sort \in {"Id", "AverageElo"}},
          nw \in Workers :
          SearchStart(1, FILE_A, query, nw, MaxStarts)
    \/ SearchSteps(1)

SpecCap == InitCap /\ [][NextCap]_vars

(* One search in full and up to nine further searches holding permits.     *)
InitTen ==
    /\ InitState((FILE_A :> GamesA), {})
    /\ walk = IdleWalk

NextTen ==
    \/ SearchStart(1, FILE_A, GameQuery(ExactStart, "Id", NoInt, NoStr), 1, MaxStarts)
    \/ SearchSteps(1)
    \/ HolderAcquire
    \/ HolderRelease

SpecTen == InitTen /\ [][NextTen]_vars

(* Every holder of permits at once: a search, is_position_in_db calls and  *)
(* delete_database, with a bad FEN and a database that is deleted under    *)
(* the calls.                                                              *)
PermitQueries ==
    {GameQuery([fen |-> fen, type_ |-> "exact"], "Id", NoInt, NoStr) :
        fen \in {FEN_START, FEN_BAD}}

PermitArgs ==
    {[file |-> FILE_A, query |-> GameQuery(ExactStart, "Id", NoInt, NoStr)]}

InitPermits ==
    /\ games = (FILE_A :> GamesA)
    /\ hasTables = DOMAIN games
    /\ pool = {}
    /\ db_cache = << >>
    /\ db_lock = 0
    /\ available = PERMITS
    /\ line_cache = {}
    /\ cache = {}
    /\ saved = {}
    /\ calls = [c \in Calls |-> IdleCall]
    /\ started = 0
    /\ del = IdleDelete
    /\ indb = [a \in PermitArgs |-> 0]
    /\ imp = IdleImport
    /\ mdb = FreshDb
    /\ puz = FreshPuz
    /\ brd = IdleBoard
    /\ answer = NoAnswer
    /\ holders = 0
    /\ walk = IdleWalk

NextPermits ==
    \/ \E query \in PermitQueries : SearchStart(1, FILE_A, query, 1, MaxStarts)
    \/ SearchSteps(1)
    \/ /\ InDbTotal(DOMAIN indb) < MaxPermitCalls
       /\ \E arg \in PermitArgs : InDbAcquire(arg)
    \/ \E arg \in PermitArgs : InDbFinish(arg)
    \/ DeleteAcquire1(FILE_A)
    \/ DeleteAcquire2
    \/ DeleteOptimize
    \/ DeleteClosePool
    \/ DeleteClearCache
    \/ DeleteRemoveFile

SpecPermits == InitPermits /\ [][NextPermits]_vars

(* convert_pgn on archives of at most MaxGames games, into one database.   *)
InitImport ==
    /\ InitState((FILE_A :> GamesA), {})
    /\ walk = IdleWalk

NextImport ==
    \/ \E n \in 0..MaxGames : ConvertStart(n)
    \/ ConvertRead
    \/ ConvertTail
    \/ ConvertIndexes
    \/ ConvertCounts
    \/ DeleteIndexes

SpecImport == InitImport /\ [][NextImport]_vars

(* merge_players on the databases that imports of at most MaxMergeGames    *)
(* games build.                                                            *)
InitMerge ==
    /\ InitState((FILE_A :> GamesA), {})
    /\ walk = IdleWalk

NextMerge ==
    \/ \E white, black \in PlayerIds :
          /\ white # black
          /\ InsertToDb(white, black, IF Len(mdb.games) % 2 = 0 THEN "1-0" ELSE "0-1")
    \/ WriteCounts
    \/ \E player1, player2 \in PlayerIds : MergePlayers(player1, player2)

SpecMerge == InitMerge /\ [][NextMerge]_vars

(* get_puzzle calls on the two puzzle databases.                            *)
PuzzleQueries ==
    { [file |-> FILE_Z, min_rating |-> 1, max_rating |-> 3, random |-> FALSE,
       themes |-> None, opening_tags |-> None],
      [file |-> FILE_Z, min_rating |-> 2, max_rating |-> 3, random |-> TRUE,
       themes |-> None, opening_tags |-> None],
      [file |-> FILE_Z, min_rating |-> 1, max_rating |-> 3, random |-> TRUE,
       themes |-> Some(<< <<"f">> >>), opening_tags |-> None],
      [file |-> FILE_Z, min_rating |-> 1, max_rating |-> 3, random |-> FALSE,
       themes |-> Some(<< <<"f">>, <<"m">> >>), opening_tags |-> Some(<< <<"n">> >>)],
      [file |-> FILE_Z, min_rating |-> 3, max_rating |-> 3, random |-> TRUE,
       themes |-> Some(<< <<"m">> >>), opening_tags |-> Some(<< >>)],
      [file |-> FILE_Y, min_rating |-> 1, max_rating |-> 3, random |-> TRUE,
       themes |-> Some(<< <<"f">> >>), opening_tags |-> None],
      [file |-> FILE_Y, min_rating |-> 1, max_rating |-> 3, random |-> FALSE,
       themes |-> None, opening_tags |-> Some(<< <<"s">> >>)] }

InitPuzzle ==
    /\ InitState((FILE_A :> GamesA), {})
    /\ walk = IdleWalk

NextPuzzle ==
    \E q \in PuzzleQueries :
        GetPuzzle(q.file, q.min_rating, q.max_rating, q.random, q.themes, q.opening_tags)

SpecPuzzle == InitPuzzle /\ [][NextPuzzle]_vars

(* get_puzzle calls with tag filters on the database with junction tables:  *)
(* the random path of get_puzzles_with_normalized_tables with more          *)
(* eligible puzzles than the cache holds, with as many, and with fewer.     *)
WindowQueries ==
    { [file |-> FILE_Z, min_rating |-> lo, max_rating |-> 3, random |-> r,
       themes |-> Some(t), opening_tags |-> None] :
          lo \in 1..2, r \in BOOLEAN, t \in {<< <<"f">>, <<"m">> >>, << <<"f">> >>} }

NextWindow ==
    \E q \in WindowQueries :
        GetPuzzle(q.file, q.min_rating, q.max_rating, q.random, q.themes, q.opening_tags)

SpecWindow == InitPuzzle /\ [][NextWindow]_vars

(* The text columns an import can store.                                    *)
ThemeTexts ==
    { NullText, << >>, <<"f">>, <<"f", SP, "m">>, <<"m", SP, SP, "f">>,
      <<"f", SP, "f">>, <<SP, "m", SP>> }

OpeningTexts == { NullText, <<"s">>, <<"s", SP, "n">> }

InitPopulate ==
    /\ InitState((FILE_A :> GamesA), {})
    /\ walk = IdleWalk

NextPopulate ==
    \/ \E themes \in ThemeTexts, opening_tags \in OpeningTexts :
          InsertPuzzle(FILE_N, themes, opening_tags)
    \/ MigratePopulate(FILE_N)

SpecPopulate == InitPopulate /\ [][NextPopulate]_vars

InitBoard ==
    /\ InitState((FILE_A :> GamesA), {})
    /\ walk = IdleWalk

NextBoard ==
    \/ /\ brd.kind = "idle"
       /\ \E board \in FingerprintBoards : Fingerprint(board)
    \/ /\ brd.kind = "idle"
       /\ \E e \in Materials, eh \in PawnHomes, c \in Materials, ch \in PawnHomes :
             Reach(ExactData(e, eh), c, ch)
    \/ /\ brd.kind = "idle"
       /\ \E board \in QueryBoards, e \in Materials, c \in Materials, ch \in PawnHomes :
             Reach(PartialData(board, e), c, ch)
    \/ /\ brd.kind = "idle"
       /\ \E q \in QueryBoards, board \in TestedBoards :
             Match(PartialData(q, [white |-> 0, black |-> 0]), board)
    \/ /\ brd.kind = "idle"
       /\ \E fen \in FenKnown : PlayStart(fen)
    \/ PlayMove

SpecBoard == InitBoard /\ [][NextBoard]_vars

(***************************************************************************)
(* Properties                                                              *)
(***************************************************************************)
RECURSIVE StreamEnd(_)
StreamEnd(stream) ==
    Once(next_move(stream), LAMBDA r :
        IF r.some THEN StreamEnd(r.stream) ELSE r.stream.index)

(* Every byte of the blob belongs to the grammar and is consumed.          *)
WellFormed(bytes, start_position) ==
    StreamEnd([bytes |-> bytes, position |-> start_position, index |-> 0])
        >= Len(bytes)

WalkStart == RowStart(walk.fen).chess
WalkLine == MainLine(walk.blob, WalkStart)
WalkPos(k) == IF k = 0 THEN WalkStart ELSE WalkLine[k].position
WalkQuery == convert_position_query(walk.query)
FirstMatch(k) ==
    /\ matches(WalkQuery, WalkPos(k))
    /\ \A j \in 0..(k - 1) : ~matches(WalkQuery, WalkPos(j))

(* C2: a reported continuation M means that the main line of the game      *)
(* reaches a position matching the query, and M is the move played right   *)
(* after the first such position, or "*" when that position is reached by  *)
(* the last byte of the blob.                                              *)
C2_ContinuationFollowsFirstMatch ==
    walk.res.tag = "Some" =>
        \E k \in 0..Len(WalkLine) :
            /\ FirstMatch(k)
            /\ IF k < Len(WalkLine) THEN walk.res.mv = WalkLine[k + 1].san
               ELSE walk.res.mv = "*" /\ k = Len(walk.blob)

C2_Witness ==
    /\ walk.res.tag = "Some"
    /\ walk.res.mv # "*"
    /\ ~matches(WalkQuery, WalkStart)
    /\ Len(walk.blob) >= 3

(* C8: on a blob of the grammar, a game whose main line reaches a position *)
(* matching the query is reported with the move that follows the first     *)
(* match on the main line ("*" when the main line ends there), comments,   *)
(* NAGs and variations being skipped.                                      *)
C8_SentinelsAreSkipped ==
    (/\ walk.res # Pending
     /\ RowStart(walk.fen).ok
     /\ WellFormed(walk.blob, WalkStart))
    => \A k \in 0..Len(WalkLine) :
          FirstMatch(k) =>
             walk.res = OkSome(IF k < Len(WalkLine) THEN WalkLine[k + 1].san ELSE "*")

Done(c) == calls[c].pc = "done"

HasFinished(events) == \E i \in 1..Len(events) : events[i].finished

(* C1: a call that starts when a result is stored for its (fen, database   *)
(* path), the database not being deleted meanwhile, returns stats that     *)
(* were stored for that key, examines no row and emits exactly the         *)
(* terminal event.                                                         *)
C1_CacheHitSkipsScanner ==
    \A c \in Calls :
        (Done(c) /\ calls[c].cachedAtStart /\ ~calls[c].disturbed)
        => /\ calls[c].result.kind = "Ok"
           /\ [fen |-> calls[c].fen,
               path |-> normalize_db_path(calls[c].file, TRUE),
               stats |-> calls[c].result.stats] \in saved
           /\ ~calls[c].scanned
           /\ calls[c].events = <<Terminal>>

C1_Witness ==
    \E c \in Calls :
        /\ Done(c) /\ calls[c].cachedAtStart /\ ~calls[c].disturbed
        /\ calls[c].result.kind = "Ok"
        /\ Cardinality(calls[c].result.stats) = 2
        /\ calls[c].result.details # {}

(* C3: a call that returned SearchStopped has not written the result cache *)
(* and has emitted no finished event.                                      *)
C3_StoppedWritesNothing ==
    \A c \in Calls :
        (Done(c) /\ calls[c].result.kind = "SearchStopped")
        => ~calls[c].wrote /\ ~HasFinished(calls[c].events)

C3_Witness ==
    \E c \in Calls :
        /\ Done(c) /\ calls[c].result.kind = "SearchStopped"
        /\ calls[c].skipped # {}

(* C4: a call one of whose row workers returned early on 0 available       *)
(* permits never returns Ok and never saves to the result cache.           *)
C4_PartialResultsDiscarded ==
    \A c \in Calls :
        calls[c].skipped # {}
        => /\ ~calls[c].wrote
           /\ calls[c].pc # "save"
           /\ Done(c) => calls[c].result.kind # "Ok"

(* C5: a call during whose scan another search_position acquired a permit  *)
(* returns SearchStopped.                                                  *)
C5_NewSearchStopsEarlier ==
    \A c \in Calls :
        (Done(c) /\ calls[c].overlapped) => calls[c].result.kind = "SearchStopped"

(* C6: when delete_database is about to remove the connection pool it      *)
(* holds every permit, and no search_position call holds one.              *)
C6_DeleteHoldsAllPermits ==
    del.pc = "close"
    => /\ del.held = PERMITS
       /\ \A c \in Calls : ~calls[c].holds

(* C7: a local scan of a database file iterates the game rows of that      *)
(* file.                                                                   *)
C7_DbCacheFollowsFile ==
    \A c \in Calls :
        (/\ calls[c].pc = "scan"
         /\ calls[c].path = "localB"
         /\ ~calls[c].disturbed)
        => calls[c].rows = games[calls[c].file]

(* The rows of a scan that a worker examined and found matching.           *)
Matched(call) ==
    {i \in (1..Len(call.rows)) \ call.skipped :
        /\ PassesFilters(call.query, call.rows[i])
        /\ RowCanReach(call.path, call.position_query, call.rows[i])
        /\ get_move_after_match(call.rows[i].moves, call.rows[i].fen,
                                call.position_query).tag = "Some"}

Continuation(call, i) ==
    get_move_after_match(call.rows[i].moves, call.rows[i].fen,
                         call.position_query).mv

CountOf(call, m, result) ==
    Cardinality({i \in Matched(call) :
                    Continuation(call, i) = m /\ call.rows[i].result = result})

ExpectedStats(call) ==
    {[move |-> m, white |-> CountOf(call, m, "1-0"),
      draw |-> CountOf(call, m, "1/2-1/2"), black |-> CountOf(call, m, "0-1")] :
        m \in {Continuation(call, i) : i \in Matched(call)}}

ScanIsOver(c) ==
    /\ calls[c].path \in {"localB", "localAvg", "onlinePar", "onlineSeq"}
    /\ calls[c].pc \in {"details", "save", "done"}

(* C9: whatever the interleaving of the row workers, the stats of a        *)
(* finished scan hold one entry per continuation, with the numbers of      *)
(* matched games won by White, drawn and won by Black.                     *)
C9_StatsCountEveryMatch ==
    \A c \in Calls : ScanIsOver(c) => calls[c].openings = ExpectedStats(calls[c])

C9_Witness ==
    \E c \in Calls :
        /\ ScanIsOver(c)
        /\ calls[c].nw = 2
        /\ \E e \in calls[c].openings : e.white + e.draw + e.black >= 2
        /\ Cardinality(calls[c].openings) = 2

RowAvg(call, i) == avg_elo(call.rows[i].white_elo, call.rows[i].black_elo)

RowOfId(call, id) == CHOOSE i \in 1..Len(call.rows) : call.rows[i].id = id

(* C11: after an AverageElo scan the returned ids are min(cap, number of   *)
(* matches) matched games, no matched game left out has a higher average   *)
(* Elo than one returned, and the ids are in descending average order.     *)
C11_TopKByAverageElo ==
    \A c \in Calls :
        (ScanIsOver(c) /\ calls[c].path = "localAvg")
        => LET call == calls[c]
               ids == call.ids
               kept == {RowOfId(call, ids[j]) : j \in 1..Len(ids)}
           IN /\ Len(ids) = Min(MAX_SAMPLE_GAMES, Cardinality(Matched(call)))
              /\ kept \subseteq Matched(call)
              /\ \A i \in Matched(call) \ kept, j \in kept :
                    RowAvg(call, i) <= RowAvg(call, j)
              /\ \A j \in 1..(Len(ids) - 1) :
                    RowAvg(call, RowOfId(call, ids[j]))
                       >= RowAvg(call, RowOfId(call, ids[j + 1]))

(* The rows of a database that hold the queried position, whatever their   *)
(* stored fingerprint columns say.                                         *)
RowsHolding(arg) ==
    LET position_query == convert_position_query(arg.query.position)
    IN {i \in 1..Len(games[arg.file]) :
           get_move_after_match(games[arg.file][i].moves, games[arg.file][i].fen,
                                position_query).tag = "Some"}

(* C12: on a database of online provenance the stored white_material,      *)
(* black_material and pawn_home columns never exclude a row: when          *)
(* is_position_in_db has answered "not in the database" (the negative      *)
(* answer is kept in the line_cache), no row of that database holds the    *)
(* queried position, so that the answer is the same for every content of   *)
(* the three columns.                                                      *)
C12_OnlineIgnoresStoredColumns ==
    \A arg \in DOMAIN indb :
        (is_online_database(arg.file) /\ LineKey(arg) \in line_cache)
            => RowsHolding(arg) = {}

RECURSIVE SumOfTotals(_)
SumOfTotals(openings) ==
    IF openings = {} THEN 0
    ELSE LET e == CHOOSE x \in openings : TRUE
         IN e.white + e.draw + e.black + SumOfTotals(openings \ {e})

EmptyPartial == [fen |-> FEN_EMPTY, type_ |-> "partial"]

(* The first move of the main line of a row, "*" for a game without moves. *)
FirstMainLineMove(row) ==
    LET line == MainLine(row.moves, RowStart(row.fen).chess)
    IN IF line = << >> THEN "*" ELSE line[1].san

(* C13: a finished scan for the empty partial query, without other         *)
(* filters, over a database whose games all have a readable starting       *)
(* position and a decided result, returns stats whose totals add up to the *)
(* number of games, every game being counted under the first move of its   *)
(* main line.                                                              *)
C13_EmptyPartialCountsEveryGame ==
    \A c \in Calls :
        (/\ ScanIsOver(c)
         /\ calls[c].query.position = EmptyPartial
         /\ \A i \in 1..Len(calls[c].rows) :
               /\ RowStart(calls[c].rows[i].fen).ok
               /\ calls[c].rows[i].result \in {"1-0", "1/2-1/2", "0-1"})
        => /\ SumOfTotals(calls[c].openings) = Len(calls[c].rows)
           /\ \A i \in 1..Len(calls[c].rows) :
                 \E e \in calls[c].openings :
                    e.move = FirstMainLineMove(calls[c].rows[i])

(* min(game_details_limit, cap), the default standing for an absent limit. *)
DetailsBound(query) ==
    IF query.game_details_limit = NoInt THEN DETAILS_DEFAULT
    ELSE IF query.game_details_limit > DETAILS_MAX THEN DETAILS_MAX
    ELSE query.game_details_limit

(* C14: a search_position call that returns Ok returns at most             *)
(* min(game_details_limit, cap) games (the default when no limit is        *)
(* given), after a scan and after a cache hit; with game_details_limit = 0 *)
(* the details are empty and the stats are those of the query: the counts  *)
(* of the scan, or the stats stored for the key on a cache hit, neither of *)
(* which depends on the limit.                                             *)
C14_DetailsWithinLimit ==
    \A c \in Calls :
        (Done(c) /\ calls[c].result.kind = "Ok")
        => /\ Cardinality(calls[c].result.details) <= DetailsBound(calls[c].query)
           /\ calls[c].query.game_details_limit = 0
                 => /\ calls[c].result.details = {}
                    /\ IF ScanIsOver(c)
                       THEN calls[c].result.stats = ExpectedStats(calls[c])
                       ELSE [fen |-> calls[c].fen,
                             path |-> normalize_db_path(calls[c].file, TRUE),
                             stats |-> calls[c].result.stats] \in saved

C14_Witness ==
    \E c \in Calls :
        /\ Done(c) /\ calls[c].result.kind = "Ok"
        /\ calls[c].query.game_details_limit = 0
        /\ calls[c].cachedAtStart
        /\ calls[c].result.stats # {}
        /\ calls[c].result.details = {}
        /\ \E e \in cache : e.fen = calls[c].fen /\ e.ids # << >>

OneEntryPerKey ==
    \A e1, e2 \in cache : (e1.fen = e2.fen /\ e1.path = e2.path) => e1 = e2

(* The step of a call that runs save_position_cache.                       *)
SaveStep(c) == calls[c].pc = "save" /\ calls'[c].pc = "done"

(* C15: right after save_position_cache(key, stats, ids) the lookup of the *)
(* key returns the saved stats and the first CACHE_MAX_GAMES saved ids in  *)
(* their order, whatever was stored for the key before; and the cache      *)
(* never holds two entries for one key.                                    *)
C15_SaveThenGet ==
    /\ []OneEntryPerKey
    /\ [][\A c \in Calls :
            SaveStep(c)
            => get_cached_position(cache', calls[c].fen, calls[c].file)
                  = [some |-> TRUE, stats |-> calls[c].openings,
                     ids |-> Take(calls[c].ids, CACHE_MAX_GAMES)]]_vars

(* A save has replaced the different stats an earlier save stored.         *)
C15_Witness ==
    \E c \in Calls :
        /\ Done(c) /\ calls[c].wrote
        /\ \E old \in saved :
              /\ old.fen = calls[c].fen
              /\ old.path = normalize_db_path(calls[c].file, TRUE)
              /\ old.stats # calls[c].openings
        /\ get_cached_position(cache, calls[c].fen, calls[c].file)
              = [some |-> TRUE, stats |-> calls[c].openings,
                 ids |-> Take(calls[c].ids, CACHE_MAX_GAMES)]
        /\ calls[c].ids # << >>

RowsOfPath(entries, file) == {e \in entries : e.path = normalize_db_path(file, TRUE)}

(* C16: at the step at which delete_database(db) returns, the result cache *)
(* holds no entry for the path of db, searches on db in flight during the  *)
(* deletion included; and the step that clears the cache leaves the        *)
(* entries of every other path as they were.                               *)
C16_DeleteClearsCacheOfPath ==
    /\ [][(del.pc = "remove" /\ del'.pc = "idle")
            => RowsOfPath(cache', del.file) = {}]_vars
    /\ [][(del.pc = "clear" /\ del'.pc = "remove")
            => cache' \ RowsOfPath(cache', del.file)
                  = cache \ RowsOfPath(cache, del.file)]_vars

(* A row on which the walk fails: its starting FEN does not parse, or no   *)
(* position of its game holds the query before the blob ends or shows a    *)
(* byte that is no legal-move index, or the position is reached and the    *)
(* byte after it is no legal-move index.                                   *)
RowFails(row, query) ==
    \/ ~RowStart(row.fen).ok
    \/ LET start == RowStart(row.fen).chess
           line == MainLine(row.moves, start)
           last == IF line = << >> THEN start ELSE line[Len(line)].position
       IN /\ ~matches(query, start)
          /\ \A k \in 1..(Len(line) - 1) : ~matches(query, line[k].position)
          /\ \/ line = << >>
             \/ ~matches(query, last)
             \/ /\ \A b \in 1..Len(row.moves) : row.moves[b] < NAG
                /\ Len(line) < Len(row.moves)

FailedRows(call) ==
    {i \in 1..Len(call.rows) : RowFails(call.rows[i], call.position_query)}

(* C17: a row on which the walk fails adds nothing to the stats and is not *)
(* sampled, the rows after it are examined and counted as usual, and the   *)
(* search returns Ok.                                                      *)
C17_RowFailureEndsOnlyTheRow ==
    \A c \in Calls :
        (ScanIsOver(c) /\ FailedRows(calls[c]) # {})
        => LET call == calls[c]
               good == (1..Len(call.rows)) \ FailedRows(call)
           IN /\ \A j \in 1..Len(call.ids) :
                    \E i \in good : call.rows[i].id = call.ids[j]
              /\ SumOfTotals(call.openings) <= Cardinality(good)
              /\ call.openings = ExpectedStats(call)
              /\ call.todo = {} /\ call.skipped = {}
              /\ Done(c) => call.result.kind = "Ok"

(* A search has returned Ok with stats over a database in which a row with *)
(* an unparsable FEN comes after a matching row.                           *)
C17_Witness ==
    \E c \in Calls :
        /\ Done(c) /\ calls[c].result.kind = "Ok"
        /\ ScanIsOver(c)
        /\ calls[c].result.stats # {}
        /\ \E i \in FailedRows(calls[c]) :
              /\ ~RowStart(calls[c].rows[i].fen).ok
              /\ \E k \in Matched(calls[c]) : k < i

ImportIsOver == imp.pc = "idle" /\ imp.count > 0

(* C18: when the transaction of a batch has failed, convert_pgn still      *)
(* imports every game of the archive that is not in that batch.            *)
C18_FailedBatchOnlyAborted ==
    (ImportIsOver /\ imp.failed # {})
        => ((1..imp.n) \ imp.failed) \subseteq imp.inserted

RECURSIVE Flatten(_)
Flatten(seqs) == IF seqs = << >> THEN << >> ELSE Head(seqs) \o Flatten(Tail(seqs))

(* C19: after convert_pgn has returned Ok for an archive of n games, n     *)
(* rows were added, the committed transactions hold the games 1..n once    *)
(* each and in order, none holds more than BATCH_SIZE games, and the       *)
(* processed counts of the convert_progress events increase strictly, the  *)
(* last one being n (no event is emitted for an archive without games).    *)
C19_EveryGameInOneTransaction ==
    (ImportIsOver /\ imp.result = "Ok")
        => /\ imp.rows = imp.rows0 + imp.n
           /\ Flatten(imp.txs) = [g \in 1..imp.n |-> g]
           /\ \A t \in 1..Len(imp.txs) : Len(imp.txs[t]) <= BATCH_SIZE
           /\ \A e \in 1..(Len(imp.events) - 1) : imp.events[e] < imp.events[e + 1]
           /\ IF imp.n = 0 THEN imp.events = << >>
              ELSE imp.events # << >> /\ imp.events[Len(imp.events)] = imp.n

(* An archive of two full batches and a shorter tail was imported.         *)
C19_Witness ==
    /\ ImportIsOver /\ imp.result = "Ok"
    /\ Len(imp.txs) = 3
    /\ Len(imp.txs[1]) = BATCH_SIZE
    /\ Len(imp.txs[3]) < BATCH_SIZE
    /\ Len(imp.events) = 3

(* C20: at the step at which convert_pgn returns Ok the game indexes       *)
(* exist, those the call created were created after its last insert, and   *)
(* the GameCount of the Info table is the number of rows of the games      *)
(* table.                                                                  *)
C20_IndexesAndCountAfterImport ==
    [][(imp.pc = "counts" /\ imp'.pc = "idle" /\ imp'.result = "Ok")
        => /\ imp'.indexed
           /\ imp'.indexedAt # NoInt => imp'.indexedAt = imp'.rows
           /\ imp'.info = imp'.rows]_vars

WereOpponents(tables, p, q) ==
    \E g \in 1..Len(tables.games) :
        \/ tables.games[g].white_id = p /\ tables.games[g].black_id = q
        \/ tables.games[g].white_id = q /\ tables.games[g].black_id = p

(* A merge_players call was made on two distinct players of the database   *)
(* that have no common game.                                               *)
MergedTwoPlayers ==
    /\ mdb.last.result # NoStr
    /\ mdb.last.player1 # mdb.last.player2
    /\ {mdb.last.player1, mdb.last.player2} \subseteq mdb.before.players
    /\ ~WereOpponents(mdb.before, mdb.last.player1, mdb.last.player2)

(* Every reference to player1 became one to player2 on the same side, and  *)
(* nothing else changed in the games; the row of player1 is gone.          *)
GamesAndPlayersMerged ==
    LET p1 == mdb.last.player1
        p2 == mdb.last.player2
        old == mdb.before.games
        new == mdb.after.games
    IN /\ mdb.last.result = "Ok"
       /\ Len(new) = Len(old)
       /\ \A g \in 1..Len(old) :
             /\ new[g].white_id # p1 /\ new[g].black_id # p1
             /\ new[g].white_id = IF old[g].white_id = p1 THEN p2 ELSE old[g].white_id
             /\ new[g].black_id = IF old[g].black_id = p1 THEN p2 ELSE old[g].black_id
             /\ new[g].id = old[g].id /\ new[g].result = old[g].result
       /\ mdb.after.players = mdb.before.players \ {p1}

(* C21 as stated: after the merge of two players without a common game no  *)
(* game references P1, the games of P1 reference P2 on the same side, the  *)
(* Players row of P1 is absent, nothing else changed, and Info.PlayerCount *)
(* is one lower than it was before the call.                               *)
C21_MergeLowersPlayerCount ==
    MergedTwoPlayers
        => /\ GamesAndPlayersMerged
           /\ mdb.after.info = mdb.before.info - 1

(* C21, amended: the same effect on games and Players, and Info.PlayerCount *)
(* is the number of Players rows after the call, one lower than the number *)
(* of rows before it.                                                      *)
C21_MergeReassignsAndCounts ==
    MergedTwoPlayers
        => /\ GamesAndPlayersMerged
           /\ mdb.after.info = Cardinality(mdb.before.players) - 1
           /\ mdb.after.info = Cardinality(mdb.after.players)

(* The merged player had a game with White and a game with Black.          *)
C21_Witness ==
    /\ MergedTwoPlayers
    /\ mdb.last.result = "Ok"
    /\ \E g \in 1..Len(mdb.before.games) :
          mdb.before.games[g].white_id = mdb.last.player1
    /\ \E g \in 1..Len(mdb.before.games) :
          mdb.before.games[g].black_id = mdb.last.player1
    /\ mdb.before.info = Cardinality(mdb.before.players)

(* C22: merge_players on two players that have a common game, in either    *)
(* colour order, returns NotDistinctPlayers and leaves games, Players and  *)
(* Info as they were.                                                      *)
C22_OpponentsAreNotMerged ==
    (mdb.last.result # NoStr
     /\ WereOpponents(mdb.before, mdb.last.player1, mdb.last.player2))
        => /\ mdb.last.result = "NotDistinctPlayers"
           /\ mdb.after = mdb.before

(* The refused merge names as player1 the Black of the common game.        *)
C22_Witness ==
    /\ mdb.last.result = "NotDistinctPlayers"
    /\ mdb.after = mdb.before
    /\ \E g \in 1..Len(mdb.before.games) :
          /\ mdb.before.games[g].black_id = mdb.last.player1
          /\ mdb.before.games[g].white_id = mdb.last.player2
    /\ ~\E g \in 1..Len(mdb.before.games) :
          /\ mdb.before.games[g].white_id = mdb.last.player1
          /\ mdb.before.games[g].black_id = mdb.last.player2

(* The tags of a text column, and its discriminant: the first of them.      *)
Tokens(text) == IF text = NullText THEN << >> ELSE split_whitespace(text)

FirstToken(text) == IF Tokens(text) = << >> THEN {} ELSE {Tokens(text)[1]}

(* The puzzle p satisfies the filters of a call: the rating range, one of   *)
(* the supplied themes, one of the supplied opening tags.                   *)
SatisfiesFilters(p, call) ==
    /\ call.min_rating <= p.rating /\ p.rating <= call.max_rating
    /\ (call.themes.some /\ call.themes.v # << >>) =>
           SeqRange(Tokens(p.themes)) \cap SeqRange(call.themes.v) # {}
    /\ (call.opening_tags.some /\ call.opening_tags.v # << >>) =>
           FirstToken(p.opening_tags) \cap SeqRange(call.opening_tags.v) # {}

EligibleSet(call) ==
    {p \in SeqRange(puz.dbs[call.file].puzzles) : SatisfiesFilters(p, call)}

(* C23: a get_puzzle call returns NoPuzzles exactly when no puzzle of its   *)
(* database satisfies its rating and tag filters; with an eligible puzzle   *)
(* it returns a puzzle, also when the earlier fill has been served.         *)
C23_NoPuzzlesIffNoneEligible ==
    puz.last.result # NoStr =>
        (puz.last.result = "NoPuzzles" <=> EligibleSet(puz.last) = {})

(* C24: the puzzle a get_puzzle call returns satisfies the filters of that  *)
(* call, whatever filters the calls before it had.                          *)
C24_ReturnedPuzzleSatisfiesFilters ==
    puz.last.result = "Ok" => SatisfiesFilters(puz.last.puzzle, puz.last)

(* A call was served a puzzle while the next unserved puzzle of the cache,  *)
(* loaded under the filters of the call before it, fails its filters.       *)
C24_Witness ==
    /\ puz.last.result = "Ok"
    /\ puz.last.unserved # NoPuzzle
    /\ ~SatisfiesFilters(puz.last.unserved, puz.last)
    /\ SatisfiesFilters(puz.last.puzzle, puz.last)

(* The junction rows of the puzzle p in a table, and how many carry tag t.  *)
RowsOfPuzzle(table, p) == SelectSeq(table, LAMBDA r : r.puzzle_id = p.id)

RowsWithTag(table, p, t) == Len(SelectSeq(RowsOfPuzzle(table, p), LAMBDA r : r.tag = t))

JunctionAgrees(db, p) ==
    /\ \A t \in SeqRange(Tokens(p.themes)) : RowsWithTag(db.puzzle_themes, p, t) = 1
    /\ \A r \in SeqRange(RowsOfPuzzle(db.puzzle_themes, p)) :
           r.tag \in SeqRange(Tokens(p.themes))
    /\ \A t \in FirstToken(p.opening_tags) :
           RowsWithTag(db.puzzle_opening_tags, p, t) = 1
    /\ \A r \in SeqRange(RowsOfPuzzle(db.puzzle_opening_tags, p)) :
           r.tag \in FirstToken(p.opening_tags)

SameThemeRows(db, p, q) ==
    \A t \in SeqRange(Tokens(p.themes)) :
        RowsWithTag(db.puzzle_themes, p, t) = RowsWithTag(db.puzzle_themes, q, t)

(* C25: after populate_normalized_tables every token of a puzzle's themes   *)
(* has one puzzle_themes row, the first token of its opening_tags has one   *)
(* puzzle_opening_tags row, there are no other rows, and two puzzles with   *)
(* the same multi-token themes string have the same theme rows, wherever    *)
(* the batches end.                                                         *)
C25_JunctionTablesAgree ==
    puz.populate.result # NoStr =>
        LET db == puz.dbs[puz.populate.file]
        IN \A p, q \in SeqRange(db.puzzles) :
               /\ JunctionAgrees(db, p)
               /\ (p.themes = q.themes /\ Len(Tokens(p.themes)) > 1)
                      => SameThemeRows(db, p, q)

(* C26: every event of a search_position call but its last has finished =   *)
(* false and progress <= 99; a call that returned Ok has emitted the event  *)
(* {progress: 100, finished: true} once, as its last event, and no other    *)
(* call has emitted a finished event.                                       *)
C26_ProgressThenOneTerminal ==
    \A c \in Calls :
        LET events == calls[c].events
            ok == Done(c) /\ calls[c].result.kind = "Ok"
        IN /\ \A i \in 1..(Len(events) - 1) :
                  ~events[i].finished /\ events[i].progress <= 99
           /\ ok => events # << >> /\ events[Len(events)] = Terminal
           /\ ~ok => \A i \in 1..Len(events) :
                         ~events[i].finished /\ events[i].progress <= 99

(* A call returned Ok after a scan whose last row emitted a progress event: *)
(* the whole of the rows, capped at 99, then the terminal event.            *)
C26_Witness ==
    \E c \in Calls :
        /\ Done(c) /\ calls[c].result.kind = "Ok"
        /\ calls[c].scanned
        /\ calls[c].processed = calls[c].games_len
        /\ calls[c].events = <<[progress |-> 99, finished |-> FALSE], Terminal>>

(* a & ~b == 0 on 16-bit masks, and the order of two material counts.       *)
AndNotIsZero(a, b) == \A i \in 0..15 : (a \div (2 ^ i)) % 2 = 1 => (b \div (2 ^ i)) % 2 = 1

MaterialLeq(a, b) == a.white <= b.white /\ a.black <= b.black

(* C27 as stated: for an exact query with target E, can_reach of a          *)
(* candidate C is true iff E.pawn_home & ~C.pawn_home == 0 and E.material   *)
(* <= C.material on both sides, is_reachable_by is that formula with E and  *)
(* C swapped; for a partial query can_reach is true.                        *)
C27_CanReachAsStated ==
    brd.kind = "reach" =>
        LET E == brd.query
            C == [material |-> brd.material, pawn_home |-> brd.pawn_home]
        IN IF E.kind = "Exact"
           THEN /\ brd.can_reach <=> (AndNotIsZero(E.pawn_home, C.pawn_home)
                                       /\ MaterialLeq(E.material, C.material))
                /\ brd.is_reachable_by <=> (AndNotIsZero(C.pawn_home, E.pawn_home)
                                             /\ MaterialLeq(C.material, E.material))
           ELSE brd.can_reach

(* C27, amended: for an exact query with target E, can_reach of a candidate *)
(* C is true iff C.pawn_home & ~E.pawn_home == 0 and C.material <=          *)
(* E.material on both sides, and is_reachable_by is true iff E.pawn_home &  *)
(* ~C.pawn_home == 0 and E.material <= C.material; for a partial query      *)
(* can_reach is true.                                                       *)
C27_CanReachFromTarget ==
    brd.kind = "reach" =>
        LET E == brd.query
            C == [material |-> brd.material, pawn_home |-> brd.pawn_home]
        IN IF E.kind = "Exact"
           THEN /\ brd.can_reach <=> (AndNotIsZero(C.pawn_home, E.pawn_home)
                                       /\ MaterialLeq(C.material, E.material))
                /\ brd.is_reachable_by <=> (AndNotIsZero(E.pawn_home, C.pawn_home)
                                             /\ MaterialLeq(E.material, C.material))
           ELSE brd.can_reach

(* An exact query and a candidate that holds less than the target: the      *)
(* target can reach it, it cannot reach the target.                         *)
C27_Witness ==
    /\ brd.kind = "reach"
    /\ brd.query.kind = "Exact"
    /\ brd.query.pawn_home = 257 /\ brd.pawn_home = 256
    /\ brd.query.material.white > brd.material.white
    /\ brd.can_reach /\ ~brd.is_reachable_by

Families == {"kings", "queens", "rooks", "bishops", "knights", "pawns", "white", "black"}

(* C28: a partial query matches a position iff every family whose query     *)
(* bitboard is not empty has, in the position, a bitboard that includes the *)
(* query's; the query with all families empty matches every position.       *)
C28_PartialMatchIsSuperset ==
    brd.kind = "match" =>
        LET asked == brd.query.piece_positions.board
        IN /\ brd.matches <=>
                  \A f \in Families : asked[f] # {} => asked[f] \subseteq brd.board[f]
           /\ asked = EmptyBoard => brd.matches

(* A query of pieces of one colour on two squares, matched by a position    *)
(* that holds them among others.                                            *)
C28_Witness ==
    /\ brd.kind = "match"
    /\ brd.matches
    /\ brd.query.piece_positions.board.pawns # {}
    /\ brd.query.piece_positions.board.knights # {}
    /\ brd.query.piece_positions.board.black = {}
    /\ brd.board.black # {}

BitIsSet(n, i) == (n \div (2 ^ i)) % 2 = 1

(* C29: get_pawn_home of a board is a 16-bit mask; its bit i (0..7) is set  *)
(* iff a white pawn stands on file i+1 of rank 2, its bit i+8 iff a black   *)
(* pawn stands on file i+1 of rank 7; the standard board gives 0xFFFF, the  *)
(* empty board 0.                                                           *)
C29_PawnHomeIsHomeRankPawns ==
    brd.kind = "fingerprint" =>
        /\ brd.pawn_home \in 0..65535
        /\ \A i \in 0..7 :
              /\ BitIsSet(brd.pawn_home, i)
                    <=> (8 + i) \in (brd.board.pawns \cap brd.board.white)
              /\ BitIsSet(brd.pawn_home, i + 8)
                    <=> (48 + i) \in (brd.board.pawns \cap brd.board.black)
        /\ brd.board = StandardBoard => brd.pawn_home = 65535
        /\ brd.board = EmptyBoard => brd.pawn_home = 0

(* A board with a white pawn on h2 and, counting for nothing, a black pawn  *)
(* on a2, a white pawn on a7, a pawn on e3 and a knight on h7.              *)
C29_Witness ==
    /\ brd.kind = "fingerprint"
    /\ 15 \in (brd.board.pawns \cap brd.board.white)
    /\ 8 \in (brd.board.pawns \cap brd.board.black)
    /\ 48 \in (brd.board.pawns \cap brd.board.white)
    /\ 20 \in brd.board.pawns
    /\ 55 \in brd.board.knights
    /\ brd.pawn_home = 128

(* C30 as stated: for every board C reached by play from a starting board   *)
(* S, S.pawn_home & ~C.pawn_home == 0.                                      *)
C30_StartBitsStaySet ==
    brd.kind = "play" => AndNotIsZero(brd.start_pawn_home, brd.pawn_home)

(* C30, amended: for every board C reached by play from a starting board S, *)
(* C.pawn_home & ~S.pawn_home == 0: the bits of the pawns on their home     *)
(* ranks can only clear.                                                    *)
C30_HomeBitsOnlyClear ==
    brd.kind = "play" => AndNotIsZero(brd.pawn_home, brd.start_pawn_home)

(* A game from the start in which both pawns have left their home squares.  *)
C30_Witness ==
    /\ brd.kind = "play"
    /\ brd.plies >= 2
    /\ brd.start_pawn_home = 257
    /\ brd.pawn_home = 0
    /\ brd.position.board.pawns = {16, 40}

(* A line_cache key that answers the call: same file, same query up to the *)
(* game_details_limit.                                                     *)
Covers(k, arg) ==
    /\ k.file = arg.file
    /\ [k.query EXCEPT !.game_details_limit = NoInt]
          = [arg.query EXCEPT !.game_details_limit = NoInt]

NegativeKnown(arg) == \E k \in line_cache : Covers(k, arg)

(* C31: an is_position_in_db call that read the database and found no     *)
(* matching game returns false and leaves a line_cache entry covering the  *)
(* query; while such an entry exists, a call with the same file and the    *)
(* same query up to game_details_limit acquires no permit, opens no        *)
(* database and returns false from the cache; entries leave the line_cache *)
(* only through clear_games (all of them) or through delete_database (the  *)
(* ones of the deleted file).                                              *)
C31_NegativeAnswerIsCached ==
    [][ /\ \A arg \in DOMAIN indb :
             /\ (indb'[arg] < indb[arg] /\ answer'.result = "false")
                    => \E k \in line_cache' : Covers(k, arg)
             /\ NegativeKnown(arg)
                    => /\ indb'[arg] <= indb[arg]
                       /\ (answer' # answer /\ answer'.arg = arg /\ indb' = indb)
                             => /\ answer' = [arg |-> arg, result |-> "false",
                                              cached |-> TRUE]
                                /\ available' = available
                                /\ pool' = pool
        /\ (line_cache \ line_cache' # {})
              => \/ line_cache' = {}
                 \/ /\ del.pc = "close"
                    /\ line_cache \ line_cache' = {k \in line_cache : k.file = del.file} ]_vars

(* A call asking for game details was answered from the entry stored by a  *)
(* call without game_details_limit.                                        *)
C31_Witness ==
    /\ answer.cached
    /\ answer.result = "false"
    /\ answer.arg.query.game_details_limit = 1
    /\ LineKey(answer.arg) \in line_cache
    /\ available = PERMITS

(* The row the importer stores for the walked game.                        *)
WalkRow == ImportedRow(1, "*", walk.blob, walk.fen, NoInt, NoInt)

(* Every byte of the blob is a move of the main line.                      *)
MovesOnly == Len(WalkLine) = Len(walk.blob)

FreshScan(file, query) ==
    [IdleCall EXCEPT !.file = file, !.query = query, !.rows = games[file],
                     !.position_query = convert_position_query(query.position),
                     !.path = IF is_online_database(file) THEN "onlinePar" ELSE "localB"]

(* C33: a search that returns Ok returns the statistics of the games that  *)
(* match its own query: position type, fen and filters.                    *)
C33_ResultDependsOnWholeQuery ==
    \A c \in Calls :
        (Done(c) /\ calls[c].result.kind = "Ok")
        => calls[c].result.stats = ExpectedStats(FreshScan(calls[c].file, calls[c].query))

(* C34: a search that returns Ok, the database not being changed while it  *)
(* ran, returns the statistics a scan of the database's current rows       *)
(* computes for its query.                                                 *)
C34_ResultReflectsCurrentGames ==
    [][\A c \in Calls :
          (/\ calls[c].pc # "done"
           /\ calls'[c].pc = "done"
           /\ calls'[c].result.kind = "Ok"
           /\ ~calls'[c].disturbed)
          => calls'[c].result.stats
                = ExpectedStats(FreshScan(calls'[c].file, calls'[c].query))]_vars

(* C35: at the end of a scan in which fewer games matched than the sample  *)
(* buffer holds, the buffer holds the id of every matched game, on every   *)
(* scan path.                                                              *)
C35_SampleHoldsEveryMatch ==
    \A c \in Calls :
        (ScanIsOver(c) /\ Cardinality(Matched(calls[c])) < MAX_SAMPLE_GAMES)
        => {calls[c].rows[i].id : i \in Matched(calls[c])}
              \subseteq SeqRange(Ids(calls[c].sample))

(* C36: while no more than PERMITS search_position calls hold a permit and *)
(* nothing else takes one, no scan skips a row for want of permits and no  *)
(* call returns SearchStopped.                                             *)
C36_TenSearchesRunToTheEnd ==
    \A c \in Calls :
        /\ calls[c].skipped = {}
        /\ Done(c) => calls[c].result.kind # "SearchStopped"

(* The permits held by the calls in progress.                              *)
Held ==
    Cardinality({c \in Calls : calls[c].holds}) + InDbTotal(DOMAIN indb)
        + del.held + holders

NothingInProgress ==
    /\ \A c \in Calls : calls[c].pc \in {"idle", "done"}
    /\ InDbTotal(DOMAIN indb) = 0
    /\ del.pc = "idle"
    /\ holders = 0

(* C37: the permits of new_request are conserved: the available permits    *)
(* and the permits held by search_position, is_position_in_db and          *)
(* delete_database calls always add up to PERMITS, a call that has         *)
(* returned, with whatever result, holds none, and all the permits are     *)
(* available when no call is in progress.                                  *)
C37_PermitsAreConserved ==
    /\ available + Held = PERMITS
    /\ available >= 0
    /\ Held <= PERMITS
    /\ \A c \in Calls : Done(c) => ~calls[c].holds
    /\ NothingInProgress => available = PERMITS

(* Every call is over, the search stopped, an is_position_in_db call ended *)
(* with an error and the database was deleted.                             *)
C37_Witness ==
    /\ NothingInProgress
    /\ available = PERMITS
    /\ calls[1].result.kind = "SearchStopped"
    /\ answer.result = "error"
    /\ del.count = 1

(* C38: a scan of an online database that took the sequential branch and   *)
(* was not cancelled ends with the statistics the parallel branch computes *)
(* for the same rows and query: the reachability check on the game's       *)
(* initial position skips no game whose main line reaches the target.      *)
C38_SequentialEqualsParallel ==
    \A c \in Calls :
        (/\ ScanIsOver(c)
         /\ calls[c].path = "onlineSeq"
         /\ calls[c].skipped = {})
        => calls[c].openings = ExpectedStats([calls[c] EXCEPT !.path = "onlinePar"])

(* C39: the puzzle a get_puzzle call returns is a row of the puzzles table *)
(* of the database at the file of that call, whatever file the call before *)
(* it named.                                                               *)
C39_PuzzleComesFromItsFile ==
    puz.last.result = "Ok"
    => puz.last.puzzle \in SeqRange(puz.dbs[puz.last.file].puzzles)

(* The last call filled the cache through the random path of               *)
(* get_puzzles_with_normalized_tables.                                     *)
RandomJoinLoad ==
    /\ puz.last.result # NoStr
    /\ puz.last.reloaded
    /\ puz.last.random
    /\ puz.dbs[puz.last.file].tables = "both"
    /\ puz.last.themes.some \/ puz.last.opening_tags.some

LoadsOfLast ==
    get_puzzles_with_normalized_tables(puz.dbs[puz.last.file], puz.last.min_rating,
                                       puz.last.max_rating, TRUE, puz.last.themes,
                                       puz.last.opening_tags)

(* Every fill lies inside the eligible rows.                               *)
WindowInsideEligibleRows ==
    \A load \in LoadsOfLast : SeqRange(load) \subseteq EligibleSet(puz.last)

(* C40: on the random path over the junction tables every fill the call    *)
(* can make holds eligible puzzles only, and every eligible puzzle, the    *)
(* one with the highest id included, is in one of the fills it can make.   *)
C40_EveryEligibleRowCanBeServed ==
    RandomJoinLoad
    => /\ WindowInsideEligibleRows
       /\ \A p \in EligibleSet(puz.last) : \E load \in LoadsOfLast : p \in SeqRange(load)

====
